---- MODULE Spec2Model ----
(***************************************************************************)
(* A model of golog: the value encoders, the key normalizer and field      *)
(* merge, the entry writer, and the JSONLogger emission pipeline.          *)
(*                                                                         *)
(* Byte strings are TLA+ strings: Len, \o and SubSeq act on them byte by   *)
(* byte.  A Go value of type `any` is a record tagged with its dynamic     *)
(* type (field t).  A Go map is iterated in an unspecified order: wherever *)
(* the code ranges over a map, the model ranges over a sequence of         *)
(* <<key, value>> pairs, and the actions draw that sequence from every     *)
(* permutation of the map's keys.                                          *)
(***************************************************************************)
EXTENDS Integers, Sequences, FiniteSets, TLC

(***************************************************************************)
(* Bytes and byte strings                                                  *)
(***************************************************************************)

\* s[i] of a Go string, as a one-byte string.
At(s, i) == SubSeq(s, i, i)

\* s[i:] and s[:i] of a Go string (i counts from 1 here).
From(s, i) == SubSeq(s, i, Len(s))
Upto(s, i) == SubSeq(s, 1, i)

\* The bytes below 0x20 that the model's alphabet holds, with their codes.
ControlBytes == {"\t", "\n", "\f", "\r"}

Code(c) == CASE c = "\t" -> 9
             [] c = "\n" -> 10
             [] c = "\f" -> 12
             [] c = "\r" -> 13

HexDigits == "0123456789abcdef"

Digits == "0123456789"

IsDigit(c) == c \in {"0", "1", "2", "3", "4", "5", "6", "7", "8", "9"}

\* strings.ContainsAny(s, chars)
RECURSIVE ContainsAny(_, _)
ContainsAny(s, chars) ==
    IF s = "" THEN FALSE
    ELSE \/ \E j \in 1..Len(chars) : At(chars, j) = At(s, 1)
         \/ ContainsAny(From(s, 2), chars)

\* Permutations of a finite set, as sequences without repetition.
RECURSIVE Orders(_)
Orders(S) ==
    IF S = {} THEN {<<>>}
    ELSE UNION {{<<x>> \o o : o \in Orders(S \ {x})} : x \in S}

(***************************************************************************)
(* Values of type any                                                      *)
(***************************************************************************)

NilV == [t |-> "nil"]
StrV(s) == [t |-> "string", s |-> s]
BoolV(b) == [t |-> "bool", b |-> b]
IntV(n) == [t |-> "int", n |-> n]
Uint8V(n) == [t |-> "uint8", n |-> n]
\* Values of the other integer types, of the float types and time.Time.
\* An int64 or uint64 holds a 64-bit word, the narrower types a small
\* integer; a float is one of a few named numbers.
SignedKinds == {"int", "int8", "int16", "int32"}
UnsignedKinds == {"uint", "uint8", "uint16", "uint32"}
FloatKinds == {"float32", "float64"}
SignedV(kind, n) == [t |-> kind, n |-> n]
UnsignedV(kind, n) == [t |-> kind, n |-> n]
Int64V(w) == [t |-> "int64", w |-> w]
Uint64V(w) == [t |-> "uint64", w |-> w]
FloatV(kind, x) == [t |-> kind, x |-> x]
TimeV(tm) == [t |-> "time", tm |-> tm]

ChanV == [t |-> "chan"]
SliceV(e) == [t |-> "slice", e |-> e]
\* A map[string]any value, given as the pairs one iteration over it visits.
MapV(p) == [t |-> "map", p |-> p]

\* The pairs an iteration over map m (a function) visits in key order o.
Pairs(m, o) == [i \in 1..Len(o) |-> <<o[i], m[o[i]]>>]

EmptyMap == [k \in {} |-> NilV]

\* m[k] = v on a Go map.
Put(m, k, v) == [x \in (DOMAIN m) \cup {k} |-> IF x = k THEN v ELSE m[x]]

(***************************************************************************)
(* String and number primitives                                            *)
(***************************************************************************)

\* A 64-bit word, as int64 and uint64 hold it: four limbs of 16 bits, the
\* most significant first.
Limb == 65536
Zero64 == <<0, 0, 0, 0>>
MinInt64 == <<32768, 0, 0, 0>>
MaxInt64 == <<32767, 65535, 65535, 65535>>
MaxUint64 == <<65535, 65535, 65535, 65535>>

\* The word plus one, modulo 2^64.
Inc64(w) ==
    LET c4 == (w[4] + 1) \div Limb
        c3 == (w[3] + c4) \div Limb
        c2 == (w[2] + c3) \div Limb
    IN  <<(w[1] + c2) % Limb, (w[2] + c3) % Limb, (w[3] + c4) % Limb,
          (w[4] + 1) % Limb>>

\* -w on int64: two's complement, wrapping.
Neg64(w) == Inc64(<<65535 - w[1], 65535 - w[2], 65535 - w[3], 65535 - w[4]>>)

\* w < 0 and w > 0 on int64.
IsNegative64(w) == w[1] >= 32768
IsPositive64(w) == w # Zero64 /\ ~IsNegative64(w)

\* w / 10 and w % 10 on a word that is not negative, or on uint64.
Rem1(w) == w[1] % 10
Rem2(w) == (Rem1(w) * Limb + w[2]) % 10
Rem3(w) == (Rem2(w) * Limb + w[3]) % 10
Mod10(w) == (Rem3(w) * Limb + w[4]) % 10
Div10(w) == <<w[1] \div 10,
              (Rem1(w) * Limb + w[2]) \div 10,
              (Rem2(w) * Limb + w[3]) \div 10,
              (Rem3(w) * Limb + w[4]) \div 10>>

\* int64(x) and uint64(x) of a value x of a narrower integer type.
ToUint64(n) == <<0, 0, n \div Limb, n % Limb>>
ToInt64(n) == IF n < 0 THEN Neg64(ToUint64(-n)) ELSE ToUint64(n)

\* The loop `for integerValue > 0` of fastFormatInt filling digitBuffer from
\* its end: the digits written, most significant first.
RECURSIVE DigitLoop(_, _)
DigitLoop(w, acc) ==
    IF IsPositive64(w) THEN DigitLoop(Div10(w), At(Digits, Mod10(w) + 1) \o acc)
    ELSE acc

\* The loop `for unsignedValue > 0` of fastFormatUint.
RECURSIVE UintDigitLoop(_, _)
UintDigitLoop(w, acc) ==
    IF w # Zero64 THEN UintDigitLoop(Div10(w), At(Digits, Mod10(w) + 1) \o acc)
    ELSE acc

fastFormatUint(w) ==
    IF w = Zero64 THEN "0" ELSE UintDigitLoop(w, "")

fastFormatInt(w) ==
    IF w = Zero64 THEN "0"
    ELSE LET isNegative == IsNegative64(w)
             integerValue == IF isNegative THEN Neg64(w) ELSE w
         IN  (IF isNegative THEN "-" ELSE "") \o DigitLoop(integerValue, "")

\* strconv.FormatInt(n, 10) and strconv.FormatUint(n, 10): the decimal text.
RECURSIVE DecimalText(_)
DecimalText(n) ==
    IF n < 10 THEN At(Digits, n + 1)
    ELSE DecimalText(n \div 10) \o At(Digits, (n % 10) + 1)

FormatInt(n) == IF n < 0 THEN "-" \o DecimalText(-n) ELSE DecimalText(n)

\* time.Now().UTC().Format(time.RFC3339Nano) at clock reading t.
FormatTime(t) == "12:00:" \o DecimalText(t) \o "Z"

\* strconv.FormatUint(w, 10) and strconv.FormatInt(w, 10) on 64-bit words.
RECURSIVE FormatUint64(_)
FormatUint64(w) ==
    IF Div10(w) = Zero64 THEN At(Digits, Mod10(w) + 1)
    ELSE FormatUint64(Div10(w)) \o At(Digits, Mod10(w) + 1)

FormatInt64(w) ==
    IF IsNegative64(w) THEN "-" \o FormatUint64(Neg64(w)) ELSE FormatUint64(w)

\* strconv.FormatFloat(x, 'g', -1, bits) on the named numbers.
FloatNames == {"zero", "half", "big", "nan", "inf"}
FormatFloat(x) ==
    CASE x = "zero" -> "0"
      [] x = "half" -> "0.5"
      [] x = "big" -> "1e+21"
      [] x = "nan" -> "NaN"
      [] x = "inf" -> "+Inf"

\* A quoting that passes every byte below 0x20 through unescaped.
QuoteByteRaw(c) ==
    CASE c = "\\" -> "\\\\"
      [] c = "\"" -> "\\\""
      [] OTHER -> c

\* What fastQuote writes for one byte.
QuoteByte(c) ==
    CASE c = "\\" -> "\\\\"
      [] c = "\"" -> "\\\""
      [] c = "\n" -> "\\n"
      [] c = "\r" -> "\\r"
      [] c = "\t" -> "\\t"
      [] OTHER -> IF c \in ControlBytes
                  THEN "\\u00" \o At(HexDigits, (Code(c) \div 16) + 1)
                               \o At(HexDigits, (Code(c) % 16) + 1)
                  ELSE c

RECURSIVE QuoteLoop(_, _)
QuoteLoop(s, i) ==
    IF i > Len(s) THEN "" ELSE QuoteByte(At(s, i)) \o QuoteLoop(s, i + 1)

fastQuote(s) == "\"" \o QuoteLoop(s, 1) \o "\""

\* What strconv.Quote writes for one byte of the model's alphabet: Go escapes.
GoQuoteByte(c) ==
    CASE c = "\\" -> "\\\\"
      [] c = "\"" -> "\\\""
      [] c = "\n" -> "\\n"
      [] c = "\r" -> "\\r"
      [] c = "\t" -> "\\t"
      [] c = "\f" -> "\\f"
      [] OTHER -> c

RECURSIVE GoQuoteLoop(_, _)
GoQuoteLoop(s, i) ==
    IF i > Len(s) THEN "" ELSE GoQuoteByte(At(s, i)) \o GoQuoteLoop(s, i + 1)

strconvQuote(s) == "\"" \o GoQuoteLoop(s, 1) \o "\""

(***************************************************************************)
(* The fast encoder.  Each operator returns [ok, out]: the success flag    *)
(* and the bytes appended to the buffer, which on failure are the partial  *)
(* bytes written before the unsupported value was met.                     *)
(***************************************************************************)

RECURSIVE encodeValue(_), encodeMapLoop(_, _, _), encodeSliceLoop(_, _, _)

encodeMap(pairs) == encodeMapLoop(pairs, 1, "{")

encodeSliceAny(elems) == encodeSliceLoop(elems, 1, "[")

encodeValue(v) ==
    CASE v.t = "nil" -> [ok |-> TRUE, out |-> "null"]
      [] v.t = "string" -> [ok |-> TRUE, out |-> fastQuote(v.s)]
      [] v.t = "bool" -> [ok |-> TRUE, out |-> IF v.b THEN "true" ELSE "false"]
      [] v.t \in SignedKinds -> [ok |-> TRUE, out |-> fastFormatInt(ToInt64(v.n))]
      [] v.t = "int64" -> [ok |-> TRUE, out |-> fastFormatInt(v.w)]
      [] v.t \in UnsignedKinds -> [ok |-> TRUE, out |-> fastFormatUint(ToUint64(v.n))]
      [] v.t = "uint64" -> [ok |-> TRUE, out |-> fastFormatUint(v.w)]
      [] v.t \in FloatKinds -> [ok |-> TRUE, out |-> FormatFloat(v.x)]
      [] v.t = "time" -> [ok |-> TRUE, out |-> "\"" \o FormatTime(v.tm) \o "\""]
      [] v.t = "map" -> encodeMap(v.p)
      [] v.t = "slice" -> encodeSliceAny(v.e)
      [] OTHER -> [ok |-> FALSE, out |-> ""]

\* The loop of encodeMap from its i-th pair on, acc being the bytes written
\* so far.  The inlined switch knows fewer types than encodeValue.
encodeMapLoop(pairs, i, acc) ==
    IF i > Len(pairs) THEN [ok |-> TRUE, out |-> acc \o "}"]
    ELSE LET k == pairs[i][1]
             v == pairs[i][2]
             pre == acc \o (IF i > 1 THEN "," ELSE "") \o fastQuote(k) \o ":"
         IN  CASE v.t = "nil" -> encodeMapLoop(pairs, i + 1, pre \o "null")
               [] v.t = "string" -> encodeMapLoop(pairs, i + 1, pre \o fastQuote(v.s))
               [] v.t = "bool" ->
                    encodeMapLoop(pairs, i + 1, pre \o (IF v.b THEN "true" ELSE "false"))
               [] v.t = "int" -> encodeMapLoop(pairs, i + 1, pre \o fastFormatInt(ToInt64(v.n)))
               [] v.t = "int64" -> encodeMapLoop(pairs, i + 1, pre \o fastFormatInt(v.w))
               [] v.t = "float64" -> encodeMapLoop(pairs, i + 1, pre \o FormatFloat(v.x))
               [] v.t = "time" ->
                    encodeMapLoop(pairs, i + 1, pre \o "\"" \o FormatTime(v.tm) \o "\"")
               [] v.t = "map" ->
                    LET r == encodeMap(v.p)
                    IN  IF r.ok THEN encodeMapLoop(pairs, i + 1, pre \o r.out)
                        ELSE [ok |-> FALSE, out |-> pre \o r.out]
               [] v.t = "slice" ->
                    LET r == encodeSliceAny(v.e)
                    IN  IF r.ok THEN encodeMapLoop(pairs, i + 1, pre \o r.out)
                        ELSE [ok |-> FALSE, out |-> pre \o r.out]
               [] OTHER -> [ok |-> FALSE, out |-> pre]

encodeSliceLoop(elems, i, acc) ==
    IF i > Len(elems) THEN [ok |-> TRUE, out |-> acc \o "]"]
    ELSE LET pre == acc \o (IF i > 1 THEN "," ELSE "")
             r == encodeValue(elems[i])
         IN  IF r.ok THEN encodeSliceLoop(elems, i + 1, pre \o r.out)
             ELSE [ok |-> FALSE, out |-> pre \o r.out]

FastEncode(v) == encodeValue(v)

\* ---- encodeValue, encodeMap and encodeSliceAny of encoder.go and coder.go ----
\* [ok, out, panic]: panic is TRUE when a type assertion failed; file names
\* the revision, "encoder.go" or "coder.go".

Encoded(text) == [ok |-> TRUE, out |-> text, panic |-> FALSE]
Refused(text) == [ok |-> FALSE, out |-> text, panic |-> FALSE]
Panicked(text) == [ok |-> FALSE, out |-> text, panic |-> TRUE]

RECURSIVE encodeValueIn(_, _), encodeMapIn(_, _, _, _), encodeSliceAnyIn(_, _, _, _)

RECURSIVE encodeMapAny(_, _, _, _)
\* An encodeMap that hands every value to encodeValue and has no switch of
\* its own.
encodeMapAny(file, pairs, i, acc) ==
    IF i > Len(pairs) THEN Encoded(acc \o "}")
    ELSE LET pre == acc \o (IF i > 1 THEN "," ELSE "") \o fastQuote(pairs[i][1]) \o ":"
             r == encodeValueIn(file, pairs[i][2])
         IN  IF r.ok THEN encodeMapAny(file, pairs, i + 1, pre \o r.out)
             ELSE [r EXCEPT !.out = pre \o r.out]

encodeValueIn(file, v) ==
    CASE v.t = "nil" -> Encoded("null")
      [] v.t = "string" ->
           Encoded(IF file = "coder.go" THEN strconvQuote(v.s) ELSE fastQuote(v.s))
      [] v.t = "bool" -> Encoded(IF v.b THEN "true" ELSE "false")
      [] v.t \in SignedKinds ->
           \* coder.go: case int, int8, int16, int32 with x.(int)
           IF file = "coder.go" /\ v.t # "int" THEN Panicked("")
           ELSE Encoded(FormatInt(v.n))
      [] v.t = "int64" -> Encoded(FormatInt64(v.w))
      [] v.t \in UnsignedKinds ->
           \* coder.go: case uint, uint8, uint16, uint32 with x.(uint)
           IF file = "coder.go" /\ v.t # "uint" THEN Panicked("")
           ELSE Encoded(FormatInt(v.n))
      [] v.t = "uint64" -> Encoded(FormatUint64(v.w))
      [] v.t \in FloatKinds -> Encoded(FormatFloat(v.x))
      [] v.t = "time" -> Encoded(strconvQuote(FormatTime(v.tm)))
      [] v.t = "map" -> encodeMapIn(file, v.p, 1, "{")
      [] v.t = "slice" -> encodeSliceAnyIn(file, v.e, 1, "[")
      [] OTHER -> Refused("")

\* The loop of encodeMap from its i-th pair on.
encodeMapIn(file, pairs, i, acc) ==
    IF i > Len(pairs) THEN Encoded(acc \o "}")
    ELSE LET v == pairs[i][2]
             pre == acc \o (IF i > 1 THEN "," ELSE "") \o fastQuote(pairs[i][1]) \o ":"
         IN  CASE v.t = "nil" -> encodeMapIn(file, pairs, i + 1, pre \o "null")
               [] v.t = "string" -> encodeMapIn(file, pairs, i + 1, pre \o fastQuote(v.s))
               [] v.t = "bool" ->
                    encodeMapIn(file, pairs, i + 1, pre \o (IF v.b THEN "true" ELSE "false"))
               [] v.t = "int" -> encodeMapIn(file, pairs, i + 1, pre \o FormatInt(v.n))
               [] v.t = "int64" -> encodeMapIn(file, pairs, i + 1, pre \o FormatInt64(v.w))
               [] v.t = "float64" ->
                    encodeMapIn(file, pairs, i + 1, pre \o FormatFloat(v.x))
               [] v.t = "time" ->
                    encodeMapIn(file, pairs, i + 1, pre \o strconvQuote(FormatTime(v.tm)))
               [] v.t = "map" ->
                    LET r == encodeMapIn(file, v.p, 1, "{")
                    IN  IF r.ok THEN encodeMapIn(file, pairs, i + 1, pre \o r.out)
                        ELSE [r EXCEPT !.out = pre \o r.out]
               [] v.t = "slice" ->
                    LET r == encodeSliceAnyIn(file, v.e, 1, "[")
                    IN  IF r.ok THEN encodeMapIn(file, pairs, i + 1, pre \o r.out)
                        ELSE [r EXCEPT !.out = pre \o r.out]
               [] OTHER -> Refused(pre)

\* The loop of encodeSliceAny from its i-th element on.
encodeSliceAnyIn(file, elems, i, acc) ==
    IF i > Len(elems) THEN Encoded(acc \o "]")
    ELSE LET pre == acc \o (IF i > 1 THEN "," ELSE "")
             r == encodeValueIn(file, elems[i])
         IN  IF r.ok THEN encodeSliceAnyIn(file, elems, i + 1, pre \o r.out)
             ELSE [r EXCEPT !.out = pre \o r.out]

FastEncodeIn(file, v) == encodeValueIn(file, v)

(***************************************************************************)
(* The reflective encoder.  [err, out]: err is TRUE when the sentinel      *)
(* errMarshalTypeUnsupported is returned.                                  *)
(***************************************************************************)

errMarshalTypeUnsupported == "unsupported type for marshal"

RECURSIVE marshalValue(_), marshalMapLoop(_, _, _), marshalSliceLoop(_, _, _)

marshalValue(v) ==
    CASE v.t = "nil" -> [err |-> FALSE, out |-> "null"]
      [] v.t = "string" -> [err |-> FALSE, out |-> strconvQuote(v.s)]
      [] v.t = "bool" -> [err |-> FALSE, out |-> IF v.b THEN "true" ELSE "false"]
      [] v.t = "int" -> [err |-> FALSE, out |-> FormatInt(v.n)]
      [] v.t = "uint8" -> [err |-> FALSE, out |-> FormatInt(v.n)]
      [] v.t = "map" -> marshalMapLoop(v.p, 1, "{")
      [] v.t = "slice" -> marshalSliceLoop(v.e, 1, "[")
      [] OTHER -> [err |-> TRUE, out |-> ""]

marshalMapLoop(pairs, i, acc) ==
    IF i > Len(pairs) THEN [err |-> FALSE, out |-> acc \o "}"]
    ELSE LET pre == acc \o (IF i > 1 THEN "," ELSE "")
                        \o strconvQuote(pairs[i][1]) \o ":"
             r == marshalValue(pairs[i][2])
         IN  IF r.err THEN [err |-> TRUE, out |-> pre \o r.out]
             ELSE marshalMapLoop(pairs, i + 1, pre \o r.out)

marshalSliceLoop(elems, i, acc) ==
    IF i > Len(elems) THEN [err |-> FALSE, out |-> acc \o "]"]
    ELSE LET pre == acc \o (IF i > 1 THEN "," ELSE "")
             r == marshalValue(elems[i])
         IN  IF r.err THEN [err |-> TRUE, out |-> pre \o r.out]
             ELSE marshalSliceLoop(elems, i + 1, pre \o r.out)

MarshalToBuffer(v) == marshalValue(v)

\* ---- marshalValue of coder.go, both revisions, on every kind ----
\* err is the error value returned: NoError for nil, else the package
\* variable that holds the error.  A revision is named by the place of its
\* marshalValue.

MarshalRevisions == {"coder.go:141", "coder.go:312"}
NoError == "nil"
Sentinel(file) ==
    IF file = "coder.go:141" THEN "errUnsupported" ELSE "errMarshalTypeUnsupported"

FuncV == [t |-> "func"]
ComplexV == [t |-> "complex"]
NilPtrV == [t |-> "nilptr"]
PtrV(v) == [t |-> "ptr", e |-> v]
\* A map whose key type is not a string, e.g. map[int]string.
KeyedMapV(p) == [t |-> "keyedmap", p |-> p]
\* A struct field: its name, whether it is exported, the json part of its
\* tag ("" when absent) and its value.
Field(name, exported, tag, v) ==
    [name |-> name, exported |-> exported, tag |-> tag, v |-> v]
StructV(f) == [t |-> "struct", f |-> f]

Marshaled(text) == [err |-> NoError, out |-> text]

\* indexComma: the index of the first comma (from 0), -1 without one.
indexComma(tag) ==
    LET at == {i \in 1..Len(tag) : At(tag, i) = ","}
    IN  IF at = {} THEN -1 ELSE (CHOOSE i \in at : \A j \in at : i <= j) - 1

RECURSIVE marshalSliceLenient(_, _, _, _)
RECURSIVE marshalValueIn(_, _), marshalMapIn(_, _, _, _)
RECURSIVE marshalSliceIn(_, _, _, _), marshalStructIn(_, _, _, _, _)

\* A slice loop that goes on after an element failed and returns nil.
marshalSliceLenient(file, elems, i, acc) ==
    IF i > Len(elems) THEN Marshaled(acc \o "]")
    ELSE LET pre == acc \o (IF i > 1 THEN "," ELSE "")
             r == marshalValueIn(file, elems[i])
         IN  marshalSliceLenient(file, elems, i + 1, pre \o r.out)

marshalValueIn(file, v) ==
    CASE v.t = "nil" -> Marshaled("null")
      [] v.t = "nilptr" -> Marshaled("null")
      [] v.t = "ptr" -> marshalValueIn(file, v.e)
      [] v.t = "string" ->
           Marshaled(IF file = "coder.go:141" THEN fastQuote(v.s) ELSE strconvQuote(v.s))
      [] v.t = "bool" -> Marshaled(IF v.b THEN "true" ELSE "false")
      [] v.t \in SignedKinds -> Marshaled(FormatInt(v.n))
      [] v.t = "int64" -> Marshaled(FormatInt64(v.w))
      [] v.t \in UnsignedKinds -> Marshaled(FormatInt(v.n))
      [] v.t = "uint64" -> Marshaled(FormatUint64(v.w))
      [] v.t \in FloatKinds -> Marshaled(FormatFloat(v.x))
      [] v.t = "keyedmap" -> [err |-> Sentinel(file), out |-> ""]
      [] v.t = "map" -> marshalMapIn(file, v.p, 1, "{")
      [] v.t = "slice" -> marshalSliceIn(file, v.e, 1, "[")
      [] v.t = "time" -> Marshaled(strconvQuote(FormatTime(v.tm)))
      [] v.t = "struct" -> marshalStructIn(file, v.f, 1, "{", TRUE)
      [] OTHER -> [err |-> Sentinel(file), out |-> ""]

\* The loop over the keys of a map from the i-th on.
marshalMapIn(file, pairs, i, acc) ==
    IF i > Len(pairs) THEN Marshaled(acc \o "}")
    ELSE LET pre == acc \o (IF i > 1 THEN "," ELSE "")
                        \o strconvQuote(pairs[i][1]) \o ":"
             r == marshalValueIn(file, pairs[i][2])
         IN  IF r.err # NoError THEN [err |-> r.err, out |-> pre \o r.out]
             ELSE marshalMapIn(file, pairs, i + 1, pre \o r.out)

\* The loop over the elements of a slice or array from the i-th on.
marshalSliceIn(file, elems, i, acc) ==
    IF i > Len(elems) THEN Marshaled(acc \o "]")
    ELSE LET pre == acc \o (IF i > 1 THEN "," ELSE "")
             r == marshalValueIn(file, elems[i])
         IN  IF r.err # NoError THEN [err |-> r.err, out |-> pre \o r.out]
             ELSE marshalSliceIn(file, elems, i + 1, pre \o r.out)

\* The loop over the fields of a struct from the i-th on.  coder.go:141
\* writes the comma and clears first before it reads the tag; coder.go:312
\* reads no tag.
marshalStructIn(file, fields, i, acc, first) ==
    IF i > Len(fields) THEN Marshaled(acc \o "}")
    ELSE LET f == fields[i] IN
         IF ~f.exported THEN marshalStructIn(file, fields, i + 1, acc, first)
         ELSE LET pre == acc \o (IF first THEN "" ELSE ",") IN
              IF file = "coder.go:141" /\ f.tag = "-"
              THEN marshalStructIn(file, fields, i + 1, pre, FALSE)
              ELSE LET comma == indexComma(f.tag)
                       name == IF file = "coder.go:141" /\ f.tag # ""
                               THEN (IF comma >= 0 THEN SubSeq(f.tag, 1, comma)
                                     ELSE f.tag)
                               ELSE f.name
                       key == pre \o strconvQuote(name) \o ":"
                       r == marshalValueIn(file, f.v)
                   IN  IF r.err # NoError THEN [err |-> r.err, out |-> key \o r.out]
                       ELSE marshalStructIn(file, fields, i + 1, key \o r.out, FALSE)

MarshalToBufferIn(file, v) == marshalValueIn(file, v)

(***************************************************************************)
(* fmt.Sprintf("%v", v) for the values of the model.  A channel prints as  *)
(* its address.                                                            *)
(***************************************************************************)

RECURSIVE SprintV(_), SprintElems(_, _), SprintPairs(_, _)

SprintV(v) ==
    CASE v.t = "nil" -> "<nil>"
      [] v.t = "string" -> v.s
      [] v.t = "bool" -> IF v.b THEN "true" ELSE "false"
      [] v.t = "int" -> FormatInt(v.n)
      [] v.t = "uint8" -> FormatInt(v.n)
      [] v.t = "chan" -> "0xc000012340"
      [] v.t = "slice" -> "[" \o SprintElems(v.e, 1) \o "]"
      [] v.t = "map" -> "map[" \o SprintPairs(v.p, 1) \o "]"

SprintElems(e, i) ==
    IF i > Len(e) THEN ""
    ELSE (IF i > 1 THEN " " ELSE "") \o SprintV(e[i]) \o SprintElems(e, i + 1)

SprintPairs(p, i) ==
    IF i > Len(p) THEN ""
    ELSE (IF i > 1 THEN " " ELSE "") \o p[i][1] \o ":" \o SprintV(p[i][2])
         \o SprintPairs(p, i + 1)


(***************************************************************************)
(* Key normalization and field merge                                       *)
(***************************************************************************)

\* The white space strings.TrimSpace removes, within the model's alphabet.
WhiteSpace == {" ", "\t", "\n", "\f", "\r"}

RECURSIVE TrimLeft(_, _), TrimRight(_, _)
\* strings.TrimLeft / TrimRight with a set of bytes as the cutset.
TrimLeft(s, cut) ==
    IF s # "" /\ At(s, 1) \in cut THEN TrimLeft(From(s, 2), cut) ELSE s

TrimRight(s, cut) ==
    IF s # "" /\ At(s, Len(s)) \in cut THEN TrimRight(Upto(s, Len(s) - 1), cut) ELSE s

TrimSpace(s) == TrimRight(TrimLeft(s, WhiteSpace), WhiteSpace)

TrimSuffix(s, suffix) ==
    IF Len(s) >= Len(suffix) /\ From(s, Len(s) - Len(suffix) + 1) = suffix
    THEN Upto(s, Len(s) - Len(suffix))
    ELSE s

Trim(s, cut) == TrimRight(TrimLeft(s, cut), cut)

normalizeKey(k) ==
    LET nk1 == TrimSpace(k)
        nk2 == TrimSuffix(nk1, ":")
        nk3 == Trim(nk2, {"\"", "'"})
    IN  TrimSpace(nk3)

\* The key under which mergeMaps stores raw key k: k itself on the fast path.
mergeKey(k) ==
    IF ~ContainsAny(k, " \t\n\r:'\"") THEN k ELSE normalizeKey(k)

\* A source map handed to mergeMaps: nil, or the pairs its iteration visits.
NilMap == [nil |-> TRUE, p |-> <<>>]
SrcMap(pairs) == [nil |-> FALSE, p |-> pairs]

RECURSIVE mergePairs(_, _, _)
\* The inner loop of mergeMaps over one source.
mergePairs(dst, pairs, i) ==
    IF i > Len(pairs) THEN dst
    ELSE mergePairs(Put(dst, mergeKey(pairs[i][1]), pairs[i][2]), pairs, i + 1)

RECURSIVE mergeLoop(_, _, _)
mergeLoop(dst, maps, i) ==
    IF i > Len(maps) THEN dst
    ELSE IF maps[i].nil THEN mergeLoop(dst, maps, i + 1)
    ELSE mergeLoop(mergePairs(dst, maps[i].p, 1), maps, i + 1)

\* mergeMaps(dst, maps...): the contents of dst after the call.
mergeMaps(dst, maps) == mergeLoop(dst, maps, 1)


(***************************************************************************)
(* A JSON reader (RFC 8259), used to state what "well-formed" and          *)
(* "decodes to" mean.  Each operator returns [ok, i, v]: whether a value   *)
(* was read, the index after it, and the value read.                       *)
(***************************************************************************)

JFail == [ok |-> FALSE, i |-> 0, v |-> [t |-> "null"]]
JOk(i, v) == [ok |-> TRUE, i |-> i, v |-> v]

JsonSpace == {" ", "\t", "\n", "\r"}

IsHex(c) == IsDigit(c) \/ c \in {"a", "b", "c", "d", "e", "f", "A", "B", "C", "D", "E", "F"}

RECURSIVE SkipWS(_, _)
SkipWS(s, i) ==
    IF i <= Len(s) /\ At(s, i) \in JsonSpace THEN SkipWS(s, i + 1) ELSE i

\* The byte a \uXXXX escape stands for; "?" for one outside the model's alphabet.
UnicodeEscape(h) ==
    CASE h \in {"0009"} -> "\t"
      [] h \in {"000a", "000A"} -> "\n"
      [] h \in {"000c", "000C"} -> "\f"
      [] h \in {"000d", "000D"} -> "\r"
      [] OTHER -> "?"

RECURSIVE ReadStringLoop(_, _, _)
ReadStringLoop(s, i, acc) ==
    IF i > Len(s) THEN JFail
    ELSE LET c == At(s, i) IN
         CASE c = "\"" -> JOk(i + 1, [t |-> "str", s |-> acc])
           [] c = "\\" ->
                IF i + 1 > Len(s) THEN JFail
                ELSE LET d == At(s, i + 1) IN
                     CASE d \in {"\"", "\\", "/"} -> ReadStringLoop(s, i + 2, acc \o d)
                       [] d = "n" -> ReadStringLoop(s, i + 2, acc \o "\n")
                       [] d = "r" -> ReadStringLoop(s, i + 2, acc \o "\r")
                       [] d = "t" -> ReadStringLoop(s, i + 2, acc \o "\t")
                       [] d = "f" -> ReadStringLoop(s, i + 2, acc \o "\f")
                       [] d = "b" -> ReadStringLoop(s, i + 2, acc \o "?")
                       [] d = "u" ->
                            IF i + 5 <= Len(s)
                               /\ \A j \in (i + 2)..(i + 5) : IsHex(At(s, j))
                            THEN ReadStringLoop(s, i + 6,
                                     acc \o UnicodeEscape(SubSeq(s, i + 2, i + 5)))
                            ELSE JFail
                       [] OTHER -> JFail
           [] c \in ControlBytes -> JFail
           [] OTHER -> ReadStringLoop(s, i + 1, acc \o c)

RECURSIVE ReadDigits(_, _)
ReadDigits(s, i) ==
    IF i <= Len(s) /\ IsDigit(At(s, i)) THEN ReadDigits(s, i + 1) ELSE i

\* An integer: -? (0 | [1-9][0-9]*).  The encoders of the model write no
\* fraction or exponent.
ReadNumber(s, i) ==
    LET j == IF At(s, i) = "-" THEN i + 1 ELSE i
        k == ReadDigits(s, j)
    IN  IF k = j \/ (At(s, j) = "0" /\ k > j + 1) THEN JFail
        ELSE JOk(k, [t |-> "num", s |-> SubSeq(s, i, k - 1)])

RECURSIVE ReadValue(_, _), ReadMembers(_, _, _), ReadElements(_, _, _)

ReadValue(s, i0) ==
    LET i == SkipWS(s, i0) IN
    IF i > Len(s) THEN JFail
    ELSE LET c == At(s, i) IN
         CASE c = "\"" -> ReadStringLoop(s, i + 1, "")
           [] c = "{" ->
                LET j == SkipWS(s, i + 1) IN
                IF j <= Len(s) /\ At(s, j) = "}"
                THEN JOk(j + 1, [t |-> "obj", p |-> <<>>])
                ELSE ReadMembers(s, j, <<>>)
           [] c = "[" ->
                LET j == SkipWS(s, i + 1) IN
                IF j <= Len(s) /\ At(s, j) = "]"
                THEN JOk(j + 1, [t |-> "arr", e |-> <<>>])
                ELSE ReadElements(s, j, <<>>)
           [] c = "n" -> IF SubSeq(s, i, i + 3) = "null"
                         THEN JOk(i + 4, [t |-> "null"]) ELSE JFail
           [] c = "t" -> IF SubSeq(s, i, i + 3) = "true"
                         THEN JOk(i + 4, [t |-> "bool", b |-> TRUE]) ELSE JFail
           [] c = "f" -> IF SubSeq(s, i, i + 4) = "false"
                         THEN JOk(i + 5, [t |-> "bool", b |-> FALSE]) ELSE JFail
           [] c = "-" \/ IsDigit(c) -> ReadNumber(s, i)
           [] OTHER -> JFail

\* The members of an object from index i0 on, acc being those read so far.
ReadMembers(s, i0, acc) ==
    LET i == SkipWS(s, i0) IN
    IF i > Len(s) \/ At(s, i) # "\"" THEN JFail
    ELSE LET k == ReadStringLoop(s, i + 1, "") IN
         IF ~k.ok THEN JFail
         ELSE LET c == SkipWS(s, k.i) IN
              IF c > Len(s) \/ At(s, c) # ":" THEN JFail
              ELSE LET v == ReadValue(s, c + 1) IN
                   IF ~v.ok THEN JFail
                   ELSE LET e == SkipWS(s, v.i)
                            got == Append(acc, <<k.v.s, v.v>>)
                        IN  IF e > Len(s) THEN JFail
                            ELSE IF At(s, e) = "}" THEN JOk(e + 1, [t |-> "obj", p |-> got])
                            ELSE IF At(s, e) = "," THEN ReadMembers(s, e + 1, got)
                            ELSE JFail

ReadElements(s, i0, acc) ==
    LET v == ReadValue(s, i0) IN
    IF ~v.ok THEN JFail
    ELSE LET e == SkipWS(s, v.i)
             got == Append(acc, v.v)
         IN  IF e > Len(s) THEN JFail
             ELSE IF At(s, e) = "]" THEN JOk(e + 1, [t |-> "arr", e |-> got])
             ELSE IF At(s, e) = "," THEN ReadElements(s, e + 1, got)
             ELSE JFail

\* The bytes are one JSON object followed by one newline and nothing else.
IsObjectLine(bytes) ==
    LET r == ReadValue(bytes, 1)
    IN  r.ok /\ r.v.t = "obj" /\ From(bytes, r.i) = "\n"

\* The members of the object of a line, in the order written.
Members(bytes) == ReadValue(bytes, 1).v.p

\* The keys of the object of a line.
KeysOf(bytes) == {Members(bytes)[i][1] : i \in 1..Len(Members(bytes))}

\* How many members of the line's object carry key k.
CountKey(bytes, k) ==
    Cardinality({i \in 1..Len(Members(bytes)) : Members(bytes)[i][1] = k})

\* The value a JSON reader keeps for key k: that of the last member with it.
Lookup(bytes, k) ==
    LET p == Members(bytes)
        last == CHOOSE i \in 1..Len(p) :
                    p[i][1] = k /\ \A j \in (i + 1)..Len(p) : p[j][1] # k
    IN  p[last][2]


(***************************************************************************)
(* Entry assembly                                                          *)
(***************************************************************************)

DebugLevel == 0
InfoLevel == 1
WarnLevel == 2
ErrorLevel == 3

Levels == DebugLevel..ErrorLevel

\* The level token each facade method passes to log.
LevelString(lv) ==
    CASE lv = DebugLevel -> "debug"
      [] lv = InfoLevel -> "info"
      [] lv = WarnLevel -> "warn"
      [] lv = ErrorLevel -> "error"

\* Whether a writer sends raw key k through key normalization.
NeedsNormalize(k) ==
    Len(k) > 0 /\ (At(k, 1) = "\"" \/ At(k, 1) = "'" \/ At(k, Len(k)) = ":")

RECURSIVE SkipSpacesLeft(_, _, _), SkipSpacesRight(_, _, _)
\* The two space-trimming loops of normalizeKeyInline, on 0-based indices.
SkipSpacesLeft(k, startIndex, endIndex) ==
    IF startIndex < endIndex /\ At(k, startIndex + 1) = " "
    THEN SkipSpacesLeft(k, startIndex + 1, endIndex)
    ELSE startIndex

SkipSpacesRight(k, startIndex, endIndex) ==
    IF endIndex > startIndex /\ At(k, endIndex) = " "
    THEN SkipSpacesRight(k, startIndex, endIndex - 1)
    ELSE endIndex

normalizeKeyInline(k) ==
    IF Len(k) <= 2 THEN k
    ELSE LET s1 == IF At(k, 1) = "\"" \/ At(k, 1) = "'" THEN 1 ELSE 0
             e0 == Len(k)
             e1 == IF e0 > s1 /\ (At(k, e0) = "\"" \/ At(k, e0) = "'")
                   THEN e0 - 1 ELSE e0
             e2 == IF e1 > s1 /\ At(k, e1) = ":" THEN e1 - 1 ELSE e1
             s2 == SkipSpacesLeft(k, s1, e2)
             e3 == SkipSpacesRight(k, s2, e2)
         IN  SubSeq(k, s2 + 1, e3)

\* ---- JSONLogWriter (the entry writer) ----

RECURSIVE writeFieldsLoop(_, _, _)
\* The loop of writeFields from the i-th pair on: [err, out].  The first
\* unsupported value ends the loop with the sentinel error.
writeFieldsLoop(pairs, i, acc) ==
    IF i > Len(pairs) THEN [err |-> FALSE, out |-> acc]
    ELSE LET k == pairs[i][1]
             v == pairs[i][2]
             key == IF NeedsNormalize(k) THEN normalizeKey(k) ELSE k
             r == encodeValue(v)
             pre == acc \o "," \o fastQuote(key) \o ":" \o r.out
         IN  IF ~r.ok THEN [err |-> TRUE, out |-> pre \o fastQuote(SprintV(v))]
             ELSE writeFieldsLoop(pairs, i + 1, pre)

writeFields(fields) ==
    IF fields.nil THEN [err |-> FALSE, out |-> ""]
    ELSE writeFieldsLoop(fields.p, 1, "")

RECURSIVE writeAdditionalLast(_, _, _, _)
\* A loop over the additional maps that keeps only the last map's outcome.
writeAdditionalLast(maps, i, acc, failed) ==
    IF i > Len(maps) THEN [err |-> failed, out |-> acc]
    ELSE LET r == writeFields(maps[i])
         IN  writeAdditionalLast(maps, i + 1, acc \o r.out, r.err)

RECURSIVE writeAdditional(_, _, _, _)
\* The loop of WriteLogEntry over the additional field maps.
writeAdditional(maps, i, acc, failed) ==
    IF i > Len(maps) THEN [err |-> failed, out |-> acc]
    ELSE LET r == writeFields(maps[i])
         IN  writeAdditional(maps, i + 1, acc \o r.out, failed \/ r.err)

\* JSONLogWriter.WriteLogEntry: [err, out], out being the bytes appended.
WriteLogEntry(timeText, levelString, message, baseFields, additionalFields) ==
    LET head == "{" \o "\"timestamp\":\"" \o timeText \o "\""
                \o ",\"level\":\"" \o levelString \o "\""
                \o ",\"message\":" \o fastQuote(message)
        b == writeFields(baseFields)
        a == writeAdditional(additionalFields, 1, head \o b.out, b.err)
        tail == IF a.err
                THEN "," \o "\"error\":" \o fastQuote(errMarshalTypeUnsupported)
                ELSE ""
    IN  [err |-> a.err, out |-> a.out \o tail \o "}" \o "\n"]

\* ---- JSONLogger.log, the revision that writes the fields directly ----

RECURSIVE directFieldsLoop(_, _, _, _)
\* One loop of log over a field map: every pair is written, an unsupported
\* value as the string "<unsupported>".
directFieldsLoop(pairs, i, acc, normalize) ==
    IF i > Len(pairs) THEN acc
    ELSE LET k == pairs[i][1]
             key == IF normalize /\ NeedsNormalize(k) THEN normalizeKeyInline(k) ELSE k
             r == encodeValue(pairs[i][2])
             pre == acc \o "," \o fastQuote(key) \o ":" \o r.out
         IN  directFieldsLoop(pairs, i + 1,
                 IF r.ok THEN pre ELSE pre \o fastQuote("<unsupported>"), normalize)

RECURSIVE directMapsLoop(_, _, _)
directMapsLoop(maps, i, acc) ==
    IF i > Len(maps) THEN acc
    ELSE IF maps[i].nil THEN directMapsLoop(maps, i + 1, acc)
    ELSE directMapsLoop(maps, i + 1, directFieldsLoop(maps[i].p, 1, acc, TRUE))

\* The buffer after the formatting part of log, for base fields iterated as
\* basePairs.
logDirect(timeText, levelString, message, basePairs, keyValuePairs) ==
    LET head == "{" \o "\"timestamp\":\"" \o timeText \o "\""
                \o ",\"level\":\"" \o levelString \o "\""
                \o ",\"message\":" \o fastQuote(message)
        b == directFieldsLoop(basePairs, 1, head, FALSE)
    IN  directMapsLoop(keyValuePairs, 1, b) \o "}" \o "\n"

\* ---- JSONLogger.log, the revision that merges into a pooled map ----

\* The map log builds: base fields, the three core fields, then the merge.
logMap(baseFields, timeText, levelString, message, keyValuePairs) ==
    LET m1 == [k \in DOMAIN baseFields |-> baseFields[k]]
        m2 == Put(m1, "timestamp", StrV(timeText))
        m3 == Put(m2, "level", StrV(levelString))
        m4 == Put(m3, "message", StrV(message))
    IN  IF Len(keyValuePairs) > 0 THEN mergeMaps(m4, keyValuePairs) ELSE m4

\* buf.WriteByte('\n') unless the buffer already ends with a newline.
EnsureNewline(bytes) ==
    IF Len(bytes) = 0 \/ At(bytes, Len(bytes)) # "\n" THEN bytes \o "\n" ELSE bytes

\* The encoding part of log on map m, FastEncode iterating it in order o1
\* and MarshalToBuffer in order o2: [minimal, buf].  minimal is TRUE when
\* both encoders failed and the minimal error line is to be written instead
\* of the buffer.
logEncode(m, o1, o2) ==
    LET fast == FastEncode(MapV(Pairs(m, o1)))
    IN  IF fast.ok THEN [minimal |-> FALSE, buf |-> EnsureNewline(fast.out)]
        ELSE LET slow == MarshalToBuffer(MapV(Pairs(m, o2)))
             IN  IF slow.err THEN [minimal |-> TRUE, buf |-> fast.out \o slow.out]
                 ELSE [minimal |-> FALSE, buf |-> EnsureNewline(fast.out \o slow.out)]

\* The line fmt.Fprintf writes when MarshalToBuffer failed.
MinimalLine(timeText, levelString, message) ==
    "{\"timestamp\":\"" \o timeText \o "\",\"level\":\"" \o levelString
    \o "\",\"message\":\"" \o message
    \o "\",\"error\":\"" \o errMarshalTypeUnsupported \o "\"}\n"


(***************************************************************************)
(* The logger: goroutines calling Debug/Info/Warn/Error on one JSONLogger. *)
(***************************************************************************)

VARIABLES
    revision,    \* which revision of JSONLogger.log runs: "merge" or "direct"
    level,       \* jl.level
    baseFields,  \* jl.baseFields
    mutex,       \* jl.mutex: 0 when free, else the goroutine holding it
    bufferPool,  \* jl.bufferPool: the buffers at rest in the pool
    buffers,     \* the contents of every *bytes.Buffer allocated so far
    mapPool,     \* jl.mapPool: the contents of the maps at rest in the pool
    sink,        \* the bytes jl.output has received
    proc,        \* per goroutine: where it is in log, and log's locals
    writes,      \* history: the Write calls on jl.output, in the order begun
    calls,       \* history: the logging calls made, with their severity
    naccepted,   \* history: the logging calls that passed the level filter
    arg,         \* the input of the pure operation under check
    res          \* its result

logVars == <<revision, level, baseFields, mutex, bufferPool, buffers, mapPool,
             sink, proc, writes, calls, naccepted>>
pureVars == <<arg, res>>
vars == <<logVars, pureVars>>

\* The goroutines that log.
Procs == {1, 2}

\* The logging calls one behaviour makes, over all goroutines.
MaxCalls == 2

\* The buffers the pool's New may allocate.
MaxBuffers == 2

\* The messages and field maps the goroutines log.
CallMessages == {"m"}

CallFields ==
    { <<>>,
      <<SrcMap(<<<<"c", ChanV>>>>)>>,
      <<SrcMap(<<<<"s", SliceV(<<ChanV>>)>>>>)>> }

\* The levels a logger is built with, the severities of the calls, and the
\* readings of time.Now().
InitLevels == {InfoLevel, WarnLevel}
CallLevels == {InfoLevel, ErrorLevel}
Times == {0}

\* The orders in which one range loop may visit the keys S of a map.  Go
\* leaves the order open; the concurrent logger draws from two of them, the
\* single-entry specifications from all (Orders).
IterationOrders(S) ==
    LET o == CHOOSE q \in Orders(S) : TRUE
    IN  {o, [i \in 1..Len(o) |-> o[Len(o) + 1 - i]]}

BaseFieldSets == {EmptyMap}

Idle == [pc |-> "idle", lv |-> 0, msg |-> "", kvs |-> <<>>, m |-> EmptyMap,
         buf |-> 0, minimal |-> FALSE, wr |-> ""]

NoArg == [op |-> "none"]

LogInit ==
    /\ revision \in {"merge", "direct"}
    /\ level \in InitLevels
    /\ baseFields \in BaseFieldSets
    /\ mutex = 0
    /\ bufferPool = {}
    /\ buffers = <<>>
    /\ mapPool = <<>>
    /\ sink = ""
    /\ proc = [p \in Procs |-> Idle]
    /\ writes = <<>>
    /\ calls = <<>>
    /\ naccepted = 0

Init == LogInit /\ arg = NoArg /\ res = NoArg

\* The level filter at the head of log.
Filtered(lv) == lv < level

\* A Lock that never waits: the logger without its mutex.
CanLockUnguarded(p) == TRUE

\* jl.mutex.Lock() returns for goroutine p.
CanLock(p) == mutex = 0

\* A pool whose Get hands out a buffer and keeps it too.
PoolKeepsBuffer(pool, b) == pool

\* The pool after Get handed out buffer b.
PoolAfterGet(pool, b) == pool \ {b}

\* The first part of the bytes a Write call copies to the sink, and the rest.
FirstChunk(bytes) == Upto(bytes, Len(bytes) \div 2)
SecondChunk(bytes) == From(bytes, (Len(bytes) \div 2) + 1)

\* for k := range m { delete(m, k) }
ClearedMap(m) == [k \in {} |-> NilV]

\* The pooled map after the assignments that build entry m in it: what it
\* held, with every key of m set.
FilledFrom(held, m) ==
    [k \in (DOMAIN held) \cup (DOMAIN m) |-> IF k \in DOMAIN m THEN m[k] ELSE held[k]]

\* A Reset that leaves the bytes of the buffer in place.
BufferKept(bytes) == bytes

\* buf.Reset()
BufferAfterReset(bytes) == ""

\* A goroutine calls a logging method: the filter, and in the merge
\* revision the pooled map, cleared and filled with the fields of the entry.
Call(p, lv, msg, kvs) ==
    /\ proc[p].pc = "idle"
    /\ Len(calls) < MaxCalls
    /\ calls' = Append(calls, [p |-> p, lv |-> lv])
    /\ IF Filtered(lv)
       THEN UNCHANGED <<proc, mapPool, naccepted>>
       ELSE /\ naccepted' = naccepted + 1
            /\ IF revision = "merge"
               THEN \E t \in Times, pooled \in {mapPool # <<>>, FALSE} :
                      LET got == IF pooled THEN Head(mapPool) ELSE EmptyMap
                      IN  /\ mapPool' = IF pooled THEN Tail(mapPool) ELSE mapPool
                          /\ proc' = [proc EXCEPT ![p] =
                               [Idle EXCEPT !.pc = "getbuf", !.lv = lv, !.msg = msg,
                                            !.kvs = kvs,
                                            !.m = FilledFrom(ClearedMap(got),
                                                    logMap(baseFields, FormatTime(t),
                                                           LevelString(lv), msg, kvs))]]
               ELSE /\ UNCHANGED mapPool
                    /\ proc' = [proc EXCEPT ![p] =
                          [Idle EXCEPT !.pc = "getbuf", !.lv = lv, !.msg = msg,
                                       !.kvs = kvs]]
    /\ UNCHANGED <<revision, level, baseFields, mutex, bufferPool, buffers, sink,
                   writes, pureVars>>

\* jl.bufferPool.Get() and buf.Reset(): a buffer at rest, or a new one.
GetBuffer(p) ==
    /\ proc[p].pc = "getbuf"
    /\ \/ \E b \in bufferPool :
              /\ bufferPool' = PoolAfterGet(bufferPool, b)
              /\ buffers' = [buffers EXCEPT ![b] = BufferAfterReset(@)]
              /\ proc' = [proc EXCEPT ![p].pc = "encode", ![p].buf = b]
       \/ /\ Len(buffers) < MaxBuffers
          /\ bufferPool' = bufferPool
          /\ buffers' = Append(buffers, "")
          /\ proc' = [proc EXCEPT ![p].pc = "encode", ![p].buf = Len(buffers) + 1]
    /\ UNCHANGED <<revision, level, baseFields, mutex, mapPool, sink,
                   writes, calls, naccepted, pureVars>>

\* The entry is formatted into the goroutine's buffer.
Encode(p) ==
    /\ proc[p].pc = "encode"
    /\ IF revision = "merge"
       THEN \E o1 \in IterationOrders(DOMAIN proc[p].m),
                 o2 \in IterationOrders(DOMAIN proc[p].m) :
              LET r == logEncode(proc[p].m, o1, o2)
              IN  /\ buffers' = [buffers EXCEPT ![proc[p].buf] = @ \o r.buf]
                  /\ proc' = [proc EXCEPT ![p].pc = "lock",
                                          ![p].minimal = r.minimal]
       ELSE \E ob \in IterationOrders(DOMAIN baseFields), t \in Times :
              LET bytes == logDirect(FormatTime(t), LevelString(proc[p].lv),
                                     proc[p].msg, Pairs(baseFields, ob), proc[p].kvs)
              IN  /\ buffers' = [buffers EXCEPT ![proc[p].buf] = @ \o bytes]
                  /\ proc' = [proc EXCEPT ![p].pc = "lock"]
    /\ UNCHANGED <<revision, level, baseFields, mutex, bufferPool, mapPool, sink,
                   writes, calls, naccepted, pureVars>>

\* jl.mutex.Lock()
Lock(p) ==
    /\ proc[p].pc = "lock"
    /\ CanLock(p)
    /\ mutex' = p
    /\ proc' = [proc EXCEPT ![p].pc = "write"]
    /\ UNCHANGED <<revision, level, baseFields, bufferPool, buffers, mapPool, sink,
                   writes, calls, naccepted, pureVars>>

\* The Write call on jl.output begins: the buffer's bytes, or on the minimal
\* path the line fmt.Fprintf formats.  The sink takes the first bytes.
WriteBegin(p) ==
    /\ proc[p].pc = "write"
    /\ \E t \in Times :
         LET bytes == IF proc[p].minimal
                      THEN MinimalLine(FormatTime(t), LevelString(proc[p].lv),
                                       proc[p].msg)
                      ELSE buffers[proc[p].buf]
         IN  /\ sink' = sink \o FirstChunk(bytes)
             /\ writes' = Append(writes, [p |-> p, bytes |-> bytes])
             /\ proc' = [proc EXCEPT ![p].pc = "writing", ![p].wr = bytes]
    /\ UNCHANGED <<revision, level, baseFields, mutex, bufferPool, buffers, mapPool,
                   calls, naccepted, pureVars>>

\* The Write call returns: the sink has taken the rest.
WriteEnd(p) ==
    /\ proc[p].pc = "writing"
    /\ sink' = sink \o SecondChunk(proc[p].wr)
    /\ proc' = [proc EXCEPT ![p].pc = "unlock"]
    /\ UNCHANGED <<revision, level, baseFields, mutex, bufferPool, buffers, mapPool,
                    writes, calls, naccepted, pureVars>>

\* An Unlock that is left out on the minimal path.
MutexKeptOnFallback(p) == IF proc[p].minimal THEN p ELSE 0

\* The mutex after jl.mutex.Unlock() by goroutine p.
MutexAfterUnlock(p) == 0

\* jl.mutex.Unlock()
Unlock(p) ==
    /\ proc[p].pc = "unlock"
    /\ mutex' = MutexAfterUnlock(p)
    /\ proc' = [proc EXCEPT ![p].pc = "put"]
    /\ UNCHANGED <<revision, level, baseFields, bufferPool, buffers, mapPool, sink,
                   writes, calls, naccepted, pureVars>>

\* jl.bufferPool.Put(buf) and the return of log; in the merge revision the
\* map is cleared and pooled first, except on the minimal path.
PutBuffer(p) ==
    /\ proc[p].pc = "put"
    /\ bufferPool' = bufferPool \cup {proc[p].buf}
    /\ mapPool' = IF revision = "merge" /\ ~proc[p].minimal
                  THEN Append(mapPool, ClearedMap(proc[p].m))
                  ELSE mapPool
    /\ proc' = [proc EXCEPT ![p] = Idle]
    /\ UNCHANGED <<revision, level, baseFields, mutex, buffers, sink,
                   writes, calls, naccepted, pureVars>>

Next ==
    \E p \in Procs :
        \/ \E lv \in CallLevels, msg \in CallMessages, kvs \in CallFields :
               Call(p, lv, msg, kvs)
        \/ GetBuffer(p)
        \/ Encode(p)
        \/ Lock(p)
        \/ WriteBegin(p)
        \/ WriteEnd(p)
        \/ Unlock(p)
        \/ PutBuffer(p)

Spec == Init /\ [][Next]_vars


(***************************************************************************)
(* Key normalization and mergeMaps on their own.                           *)
(***************************************************************************)

\* The logger at rest, while a pure operation is under check.
LogAtRest ==
    /\ revision = "none"
    /\ level = InfoLevel
    /\ baseFields = EmptyMap
    /\ mutex = 0
    /\ bufferPool = {}
    /\ buffers = <<>>
    /\ mapPool = <<>>
    /\ sink = ""
    /\ proc = [p \in Procs |-> Idle]
    /\ writes = <<>>
    /\ calls = <<>>
    /\ naccepted = 0

\* Raw keys: every string of at most MaxKeyLen bytes over KeyBytes, and the
\* noisy shapes whitespace + quote + name + colon + quote + whitespace.
MaxKeyLen == 3
KeyBytes == {" ", "'", "\"", ":", "k", "\f"}

RECURSIVE KeysOfLen(_)
KeysOfLen(n) ==
    IF n = 0 THEN {""}
    ELSE {k \o b : k \in KeysOfLen(n - 1), b \in KeyBytes}

NoisyKeys ==
    {ws \o q \o name \o ":" \o q \o ws :
        ws \in {" ", "  ", "\t"}, q \in {"'", "\""}, name \in {"k", "key"}}

RawKeys == UNION {KeysOfLen(n) : n \in 0..MaxKeyLen} \cup NoisyKeys

\* The maps handed to mergeMaps: nil, or at most MaxPairs entries with
\* distinct keys from MergeKeys, listed in the order the range loop visits.
MaxPairs == 2
MergeKeys == {"k", "k::", "'k:'", "k\f", " j "}
MergeValues == {IntV(1), IntV(2)}

PairSeqs(n) ==
    {q \in [1..n -> MergeKeys \X MergeValues] :
        \A i, j \in 1..n : i # j => q[i][1] # q[j][1]}

SourcesUpTo(n) == {NilMap} \cup {SrcMap(q) : q \in UNION {PairSeqs(i) : i \in 0..n}}

DstMaps == {EmptyMap, Put(EmptyMap, "k", IntV(0))}

NormalizeArgs == {[op |-> "normalize", k |-> k] : k \in RawKeys}

MergeArgs ==
    {[op |-> "merge", dst |-> d, A |-> a, B |-> b, C |-> c] :
        d \in DstMaps, a \in SourcesUpTo(1), b \in SourcesUpTo(MaxPairs),
        c \in SourcesUpTo(1)}

InitMerge ==
    /\ LogAtRest
    /\ arg \in NormalizeArgs \cup MergeArgs
    /\ res = NoArg

\* normalizeKey on the raw key, on its own output, and the key mergeMaps
\* and the direct revision of log store for it.
ApplyNormalize ==
    /\ arg.op = "normalize"
    /\ res = NoArg
    /\ res' = [op |-> "normalize",
               once |-> normalizeKey(arg.k),
               twice |-> normalizeKey(normalizeKey(arg.k)),
               merged |-> mergeKey(arg.k),
               inline |-> normalizeKeyInline(arg.k)]
    /\ UNCHANGED <<arg, logVars>>

\* mergeMaps(dst, A, B, C), and mergeMaps(T, B, C) on an empty T followed by
\* mergeMaps(dst, A, T), the range loop visiting T in order o.
ApplyMerge ==
    /\ arg.op = "merge"
    /\ res = NoArg
    /\ LET T == mergeMaps(EmptyMap, <<arg.B, arg.C>>)
       IN  \E o \in Orders(DOMAIN T) :
              res' = [op |-> "merge",
                      direct |-> mergeMaps(arg.dst, <<arg.A, arg.B, arg.C>>),
                      T |-> T,
                      staged |-> mergeMaps(arg.dst, <<arg.A, SrcMap(Pairs(T, o))>>)]
    /\ UNCHANGED <<arg, logVars>>

NextMerge == ApplyNormalize \/ ApplyMerge

SpecMerge == InitMerge /\ [][NextMerge]_vars


(***************************************************************************)
(* Properties of key normalization and merging.                            *)
(***************************************************************************)

\* The sources of the merge under check, in call order.
MergeSources == <<arg.A, arg.B, arg.C>>

\* The values source src holds under raw keys that normalize to k.
ValuesFor(src, k) ==
    IF src.nil THEN {}
    ELSE {src.p[i][2] : i \in {j \in 1..Len(src.p) : normalizeKey(src.p[j][1]) = k}}

\* The sources that contain a raw key normalizing to k.
Contributors(k) == {i \in 1..3 : ValuesFor(MergeSources[i], k) # {}}

Max(S) == CHOOSE x \in S : \A y \in S : y <= x

CanonicalKeys == {normalizeKey(r) : r \in MergeKeys} \cup {"k"}

\* C7 -- merge override law: after mergeMaps(dst, S1, .., Sn), for every
\* canonical key k, dst[k] is the value of the last source that contains a
\* raw key normalizing to k; if there is none dst[k] is as before.
C7_OverrideLaw ==
    res.op = "merge" =>
        \A k \in CanonicalKeys :
            IF Contributors(k) # {}
            THEN /\ k \in DOMAIN res.direct
                 /\ res.direct[k] \in ValuesFor(MergeSources[Max(Contributors(k))], k)
            ELSE /\ (k \in DOMAIN res.direct) = (k \in DOMAIN arg.dst)
                 /\ k \in DOMAIN arg.dst => res.direct[k] = arg.dst[k]

\* C8 -- merge associativity: mergeMaps(dst, A, B, C) leaves the same dst as
\* mergeMaps(T, B, C) on an empty T followed by mergeMaps(dst, A, T).
C8_Associative ==
    res.op = "merge" => res.staged = res.direct

\* C9 -- key normalization is idempotent: normalizing the output of
\* normalization returns it unchanged.
C9_Idempotent ==
    res.op = "normalize" => res.twice = res.once

\* C10 -- a raw key of the shape whitespace, quote, name, colon, quote,
\* whitespace normalizes to the bare name.
C10_NoisyKeyToName ==
    (res.op = "normalize" /\ arg.k \in NoisyKeys)
        => /\ res.once \in {"k", "key"}
           /\ res.merged = res.once


(***************************************************************************)
(* One accepted logging call on its own, through each way of assembling    *)
(* an entry.                                                               *)
(***************************************************************************)

\* "merge" and "direct" are the two revisions of JSONLogger.log, "writer"
\* is JSONLogWriter.WriteLogEntry.
Assemblers == {"merge", "direct", "writer"}

EntryMessages == {"m", "a\"b", "a\\b", "a\nb", "\f"}

\* The field map of the call, by key.
EntryFields ==
    { EmptyMap,
      Put(EmptyMap, "k", IntV(7)),
      Put(EmptyMap, "c", ChanV),
      Put(Put(EmptyMap, "c", ChanV), "d", IntV(1)),
      Put(EmptyMap, "s", SliceV(<<IntV(1), ChanV>>)),
      Put(EmptyMap, "n", MapV(<<<<"x", ChanV>>>>)),
      Put(EmptyMap, "u", Uint8V(1)),
      Put(EmptyMap, "level", StrV("x")),
      Put(EmptyMap, "message:", StrV("x")),
      Put(EmptyMap, "timestamp", IntV(7)),
      Put(EmptyMap, "\"q\"", IntV(1)),
      Put(EmptyMap, "'s'", IntV(2)),
      Put(EmptyMap, "c:", IntV(3)),
      Put(EmptyMap, " sp ", IntV(4)) }

\* The merge revision is given the maps of at most one field: its map
\* then has four keys, visited in any of their orders by each encoder.
EntryArgs ==
    {x \in [op : {"entry"}, via : Assemblers, lv : {InfoLevel},
            msg : EntryMessages, fields : EntryFields] :
        x.via = "merge" => Cardinality(DOMAIN x.fields) <= 1}

InitEntry ==
    /\ LogAtRest
    /\ arg \in EntryArgs
    /\ res = NoArg

\* The merge revision of log: the bytes the sink receives and the bytes
\* left in the buffer.
EntryByMerge ==
    /\ arg.op = "entry" /\ arg.via = "merge"
    /\ res = NoArg
    /\ \E t \in Times, of \in Orders(DOMAIN arg.fields) :
         LET m == logMap(EmptyMap, FormatTime(t), LevelString(arg.lv), arg.msg,
                         <<SrcMap(Pairs(arg.fields, of))>>)
         IN  \E o1 \in Orders(DOMAIN m) :
             \E o2 \in IF FastEncode(MapV(Pairs(m, o1))).ok THEN {o1}
                        ELSE Orders(DOMAIN m) :
               LET r == logEncode(m, o1, o2)
               IN  res' = [op |-> "entry",
                           out |-> IF r.minimal
                                   THEN MinimalLine(FormatTime(t), LevelString(arg.lv),
                                                    arg.msg)
                                   ELSE r.buf,
                           buf |-> r.buf,
                           err |-> r.minimal]
    /\ UNCHANGED <<arg, logVars>>

\* The direct revision of log.
EntryByDirect ==
    /\ arg.op = "entry" /\ arg.via = "direct"
    /\ res = NoArg
    /\ \E t \in Times, of \in Orders(DOMAIN arg.fields) :
         LET bytes == logDirect(FormatTime(t), LevelString(arg.lv), arg.msg, <<>>,
                                <<SrcMap(Pairs(arg.fields, of))>>)
         IN  res' = [op |-> "entry", out |-> bytes, buf |-> bytes, err |-> FALSE]
    /\ UNCHANGED <<arg, logVars>>

\* WriteLogEntry on an empty buffer.
EntryByWriter ==
    /\ arg.op = "entry" /\ arg.via = "writer"
    /\ res = NoArg
    /\ \E t \in Times, of \in Orders(DOMAIN arg.fields) :
         LET r == WriteLogEntry(FormatTime(t), LevelString(arg.lv), arg.msg,
                                SrcMap(<<>>), <<SrcMap(Pairs(arg.fields, of))>>)
         IN  res' = [op |-> "entry", out |-> r.out, buf |-> r.out, err |-> r.err]
    /\ UNCHANGED <<arg, logVars>>

NextEntry == EntryByMerge \/ EntryByDirect \/ EntryByWriter

SpecEntry == InitEntry /\ [][NextEntry]_vars


(***************************************************************************)
(* Properties of one entry.                                                *)
(***************************************************************************)

\* The line holds key k with a JSON string as its value.
HasString(bytes, k) ==
    /\ CountKey(bytes, k) >= 1
    /\ Lookup(bytes, k).t = "str"

\* The keys of the call's fields whose value is a channel, and those whose
\* value is an array or a map with a channel inside.
ChanKeys == {k \in DOMAIN arg.fields : arg.fields[k] = ChanV}
NestedKeys == {k \in DOMAIN arg.fields :
                  arg.fields[k].t \in {"slice", "map"}
                  /\ ~encodeValue(arg.fields[k]).ok}

\* C4 -- for every message and every combination of field values, an
\* accepted call writes exactly one line that is a well-formed JSON object
\* whose message field decodes to the string passed, on the normal path and
\* on the unsupported-type fallback path.
C4_WellFormedLine ==
    res.op = "entry" =>
        /\ IsObjectLine(res.out)
        /\ CountKey(res.out, "message") >= 1
        /\ Lookup(res.out, "message") = [t |-> "str", s |-> arg.msg]

\* C5 -- when a field of an accepted call holds a channel, the entry is
\* still emitted, it holds that field's key with a string, an error field
\* with a non-empty string, and the other fields of the call.
C5_UnsupportedFieldKept ==
    (res.op = "entry" /\ ChanKeys # {}) =>
        /\ IsObjectLine(res.out)
        /\ \A k \in ChanKeys : HasString(res.out, k)
        /\ HasString(res.out, "error")
        /\ Lookup(res.out, "error").s # ""
        /\ \A k \in DOMAIN arg.fields : CountKey(res.out, k) >= 1

\* C6 -- when a field value is an array or map with a nested unsupported
\* element, the entry writer leaves none of the bytes the fast encoder
\* appended before failing: the buffer holds one well-formed JSON object in
\* which the field's value is a single JSON string.
C6_NestedFallbackClean ==
    (res.op = "entry" /\ arg.via \in {"writer", "direct"} /\ NestedKeys # {}) =>
        /\ IsObjectLine(res.buf)
        /\ \A k \in NestedKeys : HasString(res.buf, k)


(***************************************************************************)
(* Properties of the logger under concurrent calls.                        *)
(***************************************************************************)

\* The goroutines between the level filter and the start of their write.
BeforeWrite == {p \in Procs : proc[p].pc \in {"getbuf", "encode", "lock", "write"}}

\* The goroutines holding a buffer they took from the pool.
Holders == {p \in Procs : proc[p].pc \in {"encode", "lock", "write", "writing",
                                          "unlock", "put"}}

\* The calls of the history that the configured level lets through.
Passing == {i \in 1..Len(calls) : calls[i].lv >= level}

RECURSIVE Concat(_, _)
\* The bytes of the first n Write calls, one after the other.
Concat(ws, n) == IF n = 0 THEN "" ELSE Concat(ws, n - 1) \o ws[n].bytes

RECURSIVE CountByte(_, _)
CountByte(s, c) ==
    IF s = "" THEN 0
    ELSE (IF At(s, 1) = c THEN 1 ELSE 0) + CountByte(From(s, 2), c)

\* The last Write call has begun and not returned.
LastInProgress ==
    Len(writes) > 0 /\ proc[writes[Len(writes)].p].pc = "writing"

\* C1 -- severity filtering: a call of severity below the configured level
\* writes nothing and acquires nothing; a call at or above it writes exactly
\* one newline-terminated JSON object to the sink.
C1_SeverityFilter ==
    /\ naccepted = Cardinality(Passing)
    /\ Cardinality(BeforeWrite) + Len(writes) = Cardinality(Passing)
    /\ \A i \in 1..Len(writes) : IsObjectLine(writes[i].bytes)

\* C2 -- entries never interleave in the sink: the sink is the bytes of the
\* Write calls one after the other, whole but for the one in progress, each
\* being the bytes one accepted call produced, and once every call has
\* returned there are as many lines as accepted calls.
C2_NoInterleaving ==
    /\ Len(writes) > 0 =>
          sink = Concat(writes, Len(writes) - 1)
                 \o (IF LastInProgress
                     THEN FirstChunk(writes[Len(writes)].bytes)
                     ELSE writes[Len(writes)].bytes)
    /\ Len(writes) = 0 => sink = ""
    /\ \A p \in Procs :
          proc[p].pc = "writing" =>
              /\ writes[Len(writes)] = [p |-> p, bytes |-> proc[p].wr]
              /\ ~proc[p].minimal => proc[p].wr = buffers[proc[p].buf]
    /\ (\A p \in Procs : proc[p].pc = "idle") =>
          /\ Len(writes) = naccepted
          /\ CountByte(sink, "\n") = naccepted

\* Two goroutines have written, the second entry going in after the first.
C2_Witness ==
    /\ Len(writes) = 2
    /\ writes[1].p # writes[2].p
    /\ LastInProgress

\* C3 -- buffer ownership: a pooled buffer is held by at most one in-flight
\* call between its Get and its Put, it goes back to the pool only after
\* the call's write has returned, and it is not touched after the Put.
C3_BufferOwnership ==
    /\ \A p, q \in Holders : p # q => proc[p].buf # proc[q].buf
    /\ \A p \in Holders : proc[p].buf \in 1..Len(buffers) /\ proc[p].buf \notin bufferPool
    /\ \A p \in Procs \ Holders : proc[p].buf = 0
    /\ bufferPool \subseteq 1..Len(buffers)
    /\ \A p \in Procs :
          (proc[p].pc \in {"writing", "unlock", "put"} /\ ~proc[p].minimal) =>
              buffers[proc[p].buf] = proc[p].wr

\* One goroutine is writing its buffer out while another, its own buffer
\* filled, waits for the lock.
C3_Witness ==
    \E p, q \in Procs :
        /\ proc[p].pc = "writing"
        /\ proc[q].pc = "lock"
        /\ Len(buffers) = 2
        /\ bufferPool = {}


(***************************************************************************)
(* The fast path of mergeMaps.                                             *)
(***************************************************************************)

\* mergeMaps stores raw key k without normalizing it.
TakesFastPath(k) == ~ContainsAny(k, " \t\n\r:'\"")

\* C11 -- the merge fast path is no semantic distinction: the full
\* normalization of a key that mergeMaps inserts directly returns that key.
C11_FastPathSame ==
    (res.op = "normalize" /\ TakesFastPath(arg.k)) =>
        /\ res.merged = arg.k
        /\ res.once = arg.k


(***************************************************************************)
(* The entry writers on their own: JSONLogWriter and PrettyJSONLogWriter.  *)
(***************************************************************************)

RECURSIVE writePrettyFieldsLoop(_, _, _, _)
\* PrettyJSONLogWriter.writePrettyFields: like writeFields, each field on a
\* line of its own.
writePrettyFieldsLoop(indent, pairs, i, acc) ==
    IF i > Len(pairs) THEN [err |-> FALSE, out |-> acc]
    ELSE LET k == pairs[i][1]
             v == pairs[i][2]
             key == IF NeedsNormalize(k) THEN normalizeKey(k) ELSE k
             r == encodeValue(v)
             pre == acc \o ",\n" \o indent \o fastQuote(key) \o ": " \o r.out
         IN  IF ~r.ok THEN [err |-> TRUE, out |-> pre \o fastQuote(SprintV(v))]
             ELSE writePrettyFieldsLoop(indent, pairs, i + 1, pre)

writePrettyFields(indent, fields) ==
    IF fields.nil THEN [err |-> FALSE, out |-> ""]
    ELSE writePrettyFieldsLoop(indent, fields.p, 1, "")

RECURSIVE writePrettyAdditional(_, _, _, _, _)
writePrettyAdditional(indent, maps, i, acc, failed) ==
    IF i > Len(maps) THEN [err |-> failed, out |-> acc]
    ELSE LET r == writePrettyFields(indent, maps[i])
         IN  writePrettyAdditional(indent, maps, i + 1, acc \o r.out, failed \/ r.err)

\* PrettyJSONLogWriter.WriteLogEntry: [err, out].
PrettyWriteLogEntry(indent, timeText, levelString, message, base, additional) ==
    LET head == "{\n" \o indent \o "\"timestamp\": \"" \o timeText \o "\",\n"
                \o indent \o "\"level\": \"" \o levelString \o "\",\n"
                \o indent \o "\"message\": " \o fastQuote(message)
        b == writePrettyFields(indent, base)
        a == writePrettyAdditional(indent, additional, 1, head \o b.out, b.err)
        tail == IF a.err
                THEN ",\n" \o indent \o "\"error\": "
                     \o fastQuote(errMarshalTypeUnsupported)
                ELSE ""
    IN  [err |-> a.err, out |-> a.out \o tail \o "\n}\n"]

\* The indentation NewPrettyJSONLogWriter falls back to.
DefaultIndent == "  "

\* The field maps handed to a writer, by key; NilMap stands for a nil map.
WriterMaps ==
    { EmptyMap,
      Put(EmptyMap, "k", IntV(7)),
      Put(EmptyMap, "c", ChanV),
      Put(Put(EmptyMap, "c", ChanV), "d", IntV(1)),
      Put(EmptyMap, "s", SliceV(<<IntV(1), ChanV>>)) }

WriterBases == {EmptyMap, Put(EmptyMap, "b", IntV(1)), Put(EmptyMap, "b", ChanV)}

\* The most additional field maps one call of WriteLogEntry is given.
MaxCollections == 2

WriterArgs ==
    {[op |-> "write", writer |-> w, base |-> b, nilBase |-> nb, more |-> a] :
        w \in {"standard", "pretty"}, b \in WriterBases, nb \in BOOLEAN,
        a \in UNION {[1..n -> WriterMaps] : n \in 0..MaxCollections}}

InitWriter ==
    /\ LogAtRest
    /\ arg \in {x \in WriterArgs : x.nilBase => x.base = EmptyMap}
    /\ res = NoArg

\* The pairs of map f in the order o a range loop visits them.
Visited(f, o) == SrcMap(Pairs(f, o))

\* One way to visit each map of the sequence fs.
Visits(fs) ==
    {v \in [1..Len(fs) -> UNION {{Visited(fs[i], o) : o \in Orders(DOMAIN fs[i])} :
                                    i \in 1..Len(fs)}] :
        \A i \in 1..Len(fs) : v[i] \in {Visited(fs[i], o) : o \in Orders(DOMAIN fs[i])}}

\* WriteLogEntry of the standard writer on an empty buffer.
WriteStandard ==
    /\ arg.op = "write" /\ arg.writer = "standard"
    /\ res = NoArg
    /\ \E t \in Times, ob \in Orders(DOMAIN arg.base), more \in Visits(arg.more) :
         LET base == IF arg.nilBase THEN NilMap ELSE Visited(arg.base, ob)
             r == WriteLogEntry(FormatTime(t), LevelString(InfoLevel), "m", base, more)
         IN  res' = [op |-> "write", out |-> r.out, err |-> r.err,
                     base |-> base, more |-> more]
    /\ UNCHANGED <<arg, logVars>>

\* WriteLogEntry of the pretty writer on an empty buffer.
WritePretty ==
    /\ arg.op = "write" /\ arg.writer = "pretty"
    /\ res = NoArg
    /\ \E t \in Times, ob \in Orders(DOMAIN arg.base), more \in Visits(arg.more) :
         LET base == IF arg.nilBase THEN NilMap ELSE Visited(arg.base, ob)
             r == PrettyWriteLogEntry(DefaultIndent, FormatTime(t),
                                      LevelString(InfoLevel), "m", base, more)
         IN  res' = [op |-> "write", out |-> r.out, err |-> r.err,
                     base |-> base, more |-> more]
    /\ UNCHANGED <<arg, logVars>>

NextWriter == WriteStandard \/ WritePretty

SpecWriter == InitWriter /\ [][NextWriter]_vars


(***************************************************************************)
(* Properties of the entry writers.                                        *)
(***************************************************************************)

\* The pairs of the collections handed to the writer whose value the fast
\* encoder rejects, as <<collection, index>>; collection 0 is the base.
Collections == <<res.base>> \o res.more

RejectedPairs ==
    {<<c, i>> \in (1..Len(Collections)) \X (1..2) :
        /\ i <= Len(Collections[c].p)
        /\ ~encodeValue(Collections[c].p[i][2]).ok}

\* How many times sub occurs in s.
Occurrences(s, sub) ==
    Cardinality({i \in 1..(Len(s) - Len(sub) + 1) :
                    SubSeq(s, i, i + Len(sub) - 1) = sub})

EndsWith(s, suffix) ==
    Len(s) >= Len(suffix) /\ From(s, Len(s) - Len(suffix) + 1) = suffix

\* C12 -- WriteLogEntry, standard and pretty, returns an error if and only
\* if the fast encoder rejected at least one field value of the base fields
\* or of an additional collection; then exactly one error field is appended,
\* after all other fields and before the closing brace, however many fields
\* failed; otherwise no error field is appended.
C12_ErrorFieldIff ==
    res.op = "write" =>
        LET last == IF arg.writer = "standard"
                    THEN ",\"error\":\"unsupported type for marshal\"}\n"
                    ELSE ",\n  \"error\": \"unsupported type for marshal\"\n}\n"
        IN  /\ res.err = (RejectedPairs # {})
            /\ Occurrences(res.out, "\"error\":") = (IF res.err THEN 1 ELSE 0)
            /\ res.err => EndsWith(res.out, last)
            /\ ~res.err => EndsWith(res.out, "}\n")

\* The base fields and an additional collection both held a rejected value,
\* and a collection without one came last.
C12_Witness ==
    /\ res.op = "write"
    /\ res.err
    /\ Cardinality({pr[1] : pr \in RejectedPairs}) >= 2
    /\ Len(res.more) = 2
    /\ \A pr \in RejectedPairs : pr[1] # 3


\* The line holds a member written under key k.
WritesKey(bytes, k) == Occurrences(bytes, "\"" \o k \o "\":") >= 1

\* C13 -- an unsupported value aborts neither the entry nor its collection:
\* every pair of every collection handed to WriteLogEntry is emitted as a
\* field, the pairs visited after an unsupported value included.
C13_EveryPairEmitted ==
    res.op = "write" =>
        \A c \in 1..Len(Collections) :
            \A i \in 1..Len(Collections[c].p) :
                WritesKey(res.out, Collections[c].p[i][1])


(***************************************************************************)
(* The core fields of an entry.                                            *)
(***************************************************************************)

\* The value a JSON reader finds under key k of the line is the string s.
ReadsString(bytes, k, s) ==
    /\ CountKey(bytes, k) >= 1
    /\ Lookup(bytes, k) = [t |-> "str", s |-> s]

\* C14 -- every emitted entry carries the core fields of its call: level
\* is the token of the method called, message the string passed, timestamp
\* the generated time, even when a field map of the call holds the keys
\* level, message or timestamp or raw keys normalizing to them.
C14_CoreFieldsKept ==
    (res.op = "entry" /\ IsObjectLine(res.out)) =>
        /\ ReadsString(res.out, "level", LevelString(arg.lv))
        /\ ReadsString(res.out, "message", arg.msg)
        /\ \E t \in Times : ReadsString(res.out, "timestamp", FormatTime(t))


(***************************************************************************)
(* The encoders on their own: integer formatting, quoting, the fast        *)
(* encoder and the reflective encoder.                                     *)
(***************************************************************************)

\* The 64-bit words handed to fastFormatInt and fastFormatUint.
WordLimbs == {0, 1, 10, 32767, 32768, 65535}
Words == WordLimbs \X WordLimbs \X WordLimbs \X WordLimbs

FormatArgs == {[op |-> "format", signed |-> sg, w |-> w] : sg \in BOOLEAN, w \in Words}

\* fastFormatInt on an int64, fastFormatUint on a uint64.
ApplyFormat ==
    /\ arg.op = "format"
    /\ res = NoArg
    /\ res' = [op |-> "format",
               out |-> IF arg.signed THEN fastFormatInt(arg.w)
                       ELSE fastFormatUint(arg.w)]
    /\ UNCHANGED <<arg, logVars>>

(***************************************************************************)
(* Properties of integer formatting.                                       *)
(***************************************************************************)

RECURSIVE UnsignedText(_)
\* The base-10 text of the word read as an unsigned integer.
UnsignedText(w) ==
    IF Div10(w) = Zero64 THEN At(Digits, Mod10(w) + 1)
    ELSE UnsignedText(Div10(w)) \o At(Digits, Mod10(w) + 1)

\* The base-10 text of the word read as a signed integer: the magnitude of
\* a negative word is its two's complement read as unsigned.
SignedText(w) ==
    IF IsNegative64(w) THEN "-" \o UnsignedText(Neg64(w)) ELSE UnsignedText(w)

\* C19 -- for every 64-bit signed integer, 0 and -2^63 included,
\* fastFormatInt appends its base-10 text, and fastFormatUint that of every
\* 64-bit unsigned integer; negating the minimum value gives no wrong
\* result.
C19_DecimalText ==
    res.op = "format" =>
        /\ res.out = (IF arg.signed THEN SignedText(arg.w) ELSE UnsignedText(arg.w))
        /\ (arg.signed /\ arg.w = MinInt64) => res.out = "-9223372036854775808"
        /\ (~arg.signed /\ arg.w = MaxUint64) => res.out = "18446744073709551615"
        /\ (arg.signed /\ arg.w = MaxUint64) => res.out = "-1"


(***************************************************************************)
(* Quoting.                                                                *)
(***************************************************************************)

\* The byte strings handed to fastQuote: at most MaxStringLen bytes.
MaxStringLen == 3
StringBytes == {"a", "u", " ", "\"", "\\", "\n", "\r", "\t", "\f"}

RECURSIVE StringsOfLen(_)
StringsOfLen(n) ==
    IF n = 0 THEN {""}
    ELSE {x \o b : x \in StringsOfLen(n - 1), b \in StringBytes}

QuoteArgs == {[op |-> "quote", s |-> x] :
                 x \in UNION {StringsOfLen(n) : n \in 0..MaxStringLen}}

ApplyQuote ==
    /\ arg.op = "quote"
    /\ res = NoArg
    /\ res' = [op |-> "quote", out |-> fastQuote(arg.s)]
    /\ UNCHANGED <<arg, logVars>>

\* The escape of one byte: two characters for backslash, quote, newline,
\* carriage return and tab, \u00XX for the other bytes below 0x20, the byte
\* itself otherwise.
Escape(c) ==
    CASE c = "\\" -> "\\\\"
      [] c = "\"" -> "\\\""
      [] c = "\n" -> "\\n"
      [] c = "\r" -> "\\r"
      [] c = "\t" -> "\\t"
      [] c = "\f" -> "\\u000c"
      [] OTHER -> c

RECURSIVE Escaped(_)
Escaped(x) == IF x = "" THEN "" ELSE Escape(At(x, 1)) \o Escaped(From(x, 2))

\* C20 -- for every byte string s, fastQuote appends a quote, the escape of
\* each byte of s in turn and a quote; the result holds no raw control byte
\* and no unescaped quote, and decoding it as a JSON string gives back s.
C20_QuoteRoundTrip ==
    res.op = "quote" =>
        /\ res.out = "\"" \o Escaped(arg.s) \o "\""
        /\ \A i \in 1..Len(res.out) : At(res.out, i) \notin ControlBytes
        /\ ReadValue(res.out, 1) = JOk(Len(res.out) + 1, [t |-> "str", s |-> arg.s])

\* A string with a quote, a backslash and a form feed has been quoted.
C20_Witness ==
    /\ res.op = "quote"
    /\ arg.s = "\"\\\f"
    /\ res.out = "\"\\\"\\\\\\u000c\""

(***************************************************************************)
(* FastEncode on values: the three revisions of the fast encoder.          *)
(***************************************************************************)

EncoderFiles == {"encoder.go", "coder.go", "part_001"}

ScalarStrings == {"", "a", "a\"b", "\f"}
SmallSigned == {-5, 0, 7}
SmallUnsigned == {0, 7}
Int64Words == {Zero64, MinInt64, MaxInt64, ToInt64(-5)}
Uint64Words == {Zero64, MaxUint64, ToUint64(7)}

\* The values of the shapes the fast encoder lists as scalars.
ScalarValues ==
    {NilV} \cup {StrV(x) : x \in ScalarStrings} \cup {BoolV(b) : b \in BOOLEAN}
    \cup {SignedV(k, n) : k \in SignedKinds, n \in SmallSigned}
    \cup {Int64V(w) : w \in Int64Words}
    \cup {UnsignedV(k, n) : k \in UnsignedKinds, n \in SmallUnsigned}
    \cup {Uint64V(w) : w \in Uint64Words}
    \cup {FloatV(k, x) : k \in FloatKinds, x \in FloatNames}
    \cup {TimeV(tm) : tm \in Times}

\* One value of each scalar shape, and a channel, as members of containers.
MemberValues ==
    {NilV, StrV("a"), BoolV(TRUE), Int64V(ToInt64(-5)), Uint64V(ToUint64(7)),
     TimeV(0), ChanV}
    \cup {SignedV(k, 7) : k \in SignedKinds}
    \cup {UnsignedV(k, 7) : k \in UnsignedKinds}
    \cup {FloatV(k, "half") : k \in FloatKinds}

\* Maps of one or two pairs holding a member directly, in a nested map or
\* in a slice.
MapValues ==
    {MapV(<<>>)}
    \cup {MapV(<<<<"k", v>>>>) : v \in MemberValues}
    \cup {MapV(<<<<"k", MapV(<<<<"j", v>>>>)>>>>) : v \in MemberValues}
    \cup {MapV(<<<<"k", SliceV(<<v>>)>>>>) : v \in MemberValues}
    \cup {MapV(<<<<"a", IntV(1)>>, <<"k", v>>>>) : v \in MemberValues}

EncodeArgs == {[op |-> "encode", file |-> f, v |-> v] :
                  f \in EncoderFiles, v \in ScalarValues \cup MapValues \cup {ChanV}}

\* FastEncode(buf, v) on an empty buffer, by the revision arg.file.
ApplyEncode ==
    /\ arg.op = "encode"
    /\ res = NoArg
    /\ res' = IF arg.file = "part_001"
              THEN LET r == FastEncode(arg.v)
                   IN  [op |-> "encode", ok |-> r.ok, out |-> r.out, panic |-> FALSE]
              ELSE LET r == FastEncodeIn(arg.file, arg.v)
                   IN  [op |-> "encode", ok |-> r.ok, out |-> r.out, panic |-> r.panic]
    /\ UNCHANGED <<arg, logVars>>

(***************************************************************************)
(* Properties of FastEncode.                                               *)
(***************************************************************************)

\* The text is the JSON text of scalar v: the literal of nil and of a
\* boolean, the base-10 text of an integer, the text of a finite float (NaN
\* and the infinities have none), a string literal that reads back as the
\* string or as the formatted time.
IsJSONTextOf(text, v) ==
    CASE v.t = "nil" -> text = "null"
      [] v.t = "bool" -> text = (IF v.b THEN "true" ELSE "false")
      [] v.t = "string" ->
           LET r == ReadValue(text, 1)
           IN  r.ok /\ r.i = Len(text) + 1 /\ r.v = [t |-> "str", s |-> v.s]
      [] v.t = "time" ->
           LET r == ReadValue(text, 1)
           IN  r.ok /\ r.i = Len(text) + 1
               /\ r.v = [t |-> "str", s |-> FormatTime(v.tm)]
      [] v.t \in SignedKinds -> text = SignedText(ToInt64(v.n))
      [] v.t \in UnsignedKinds -> text = UnsignedText(ToUint64(v.n))
      [] v.t = "int64" -> text = SignedText(v.w)
      [] v.t = "uint64" -> text = UnsignedText(v.w)
      [] v.t \in FloatKinds ->
           \/ v.x = "zero" /\ text = "0"
           \/ v.x = "half" /\ text = "0.5"
           \/ v.x = "big" /\ text = "1e+21"
      [] OTHER -> FALSE

\* C15 -- for every value of a supported scalar shape (nil, string, bool,
\* every signed and unsigned integer type, both float types, a timestamp),
\* FastEncode returns true without panicking and the buffer then holds
\* exactly the JSON text of the value.
C15_ScalarsEncoded ==
    (res.op = "encode" /\ arg.v \in ScalarValues)
        => /\ ~res.panic
           /\ res.ok
           /\ IsJSONTextOf(res.out, arg.v)

\* FastEncode of the revision accepts v as the whole input.
TopLevelOk(file, v) ==
    IF file = "part_001" THEN FastEncode(v).ok ELSE FastEncodeIn(file, v).ok

RECURSIVE AllAccepted(_, _)
\* Every value in v, at any depth of maps and slices, has a shape FastEncode
\* accepts at top level.
AllAccepted(file, v) ==
    CASE v.t = "map" -> \A i \in 1..Len(v.p) : AllAccepted(file, v.p[i][2])
      [] v.t = "slice" -> \A i \in 1..Len(v.e) : AllAccepted(file, v.e[i])
      [] OTHER -> TopLevelOk(file, v)

\* The shapes a map may hold directly.
InlineKinds == {"nil", "string", "bool", "int", "int64", "float64", "time"}

RECURSIVE MapAccepted(_, _), ElementAccepted(_, _)
\* Every value directly in map v is of an inline shape, an accepted map, or
\* a slice of accepted elements.
MapAccepted(file, v) ==
    \A i \in 1..Len(v.p) :
        LET w == v.p[i][2]
        IN  CASE w.t = "map" -> MapAccepted(file, w)
              [] w.t = "slice" -> \A j \in 1..Len(w.e) : ElementAccepted(file, w.e[j])
              [] OTHER -> w.t \in InlineKinds

\* An element of a slice is accepted as a top-level value is.
ElementAccepted(file, v) ==
    CASE v.t = "map" -> MapAccepted(file, v)
      [] v.t = "slice" -> \A j \in 1..Len(v.e) : ElementAccepted(file, v.e[j])
      [] OTHER -> TopLevelOk(file, v)

\* C16 as stated -- FastEncode of a map returns true exactly when every
\* value in it, recursively, has a shape FastEncode accepts at top level.
C16_MapAcceptsTopLevelShapes ==
    (res.op = "encode" /\ arg.v.t = "map")
        => (res.ok <=> AllAccepted(arg.file, arg.v))

\* C16 amended -- FastEncode of a map returns true exactly when every value
\* directly in the map is nil, a string, a bool, an int, an int64, a
\* float64, a timestamp, a map accepted by the same rule, or a slice whose
\* elements are accepted at top level; any other shape directly in a map
\* (int8..int32, every unsigned type, float32) makes it return false.
C16_MapAcceptsInlineShapes ==
    (res.op = "encode" /\ arg.v.t = "map")
        => (res.ok <=> MapAccepted(arg.file, arg.v))

\* A map holding uint(7) is refused by encoder.go although uint(7) alone is
\* accepted.
C16_Witness ==
    /\ res.op = "encode"
    /\ arg.file = "encoder.go"
    /\ arg.v = MapV(<<<<"k", UnsignedV("uint", 7)>>>>)
    /\ ~res.ok
    /\ TopLevelOk("encoder.go", UnsignedV("uint", 7))

(***************************************************************************)
(* MarshalToBuffer on values.                                              *)
(***************************************************************************)

UnsupportedLeaves ==
    {ChanV, FuncV, ComplexV, KeyedMapV(<<>>), KeyedMapV(<<<<"1", StrV("a")>>>>)}
SupportedLeaves ==
    {NilV, NilPtrV, StrV("a"), BoolV(TRUE), IntV(7), Uint8V(1), Int64V(MinInt64),
     Uint64V(MaxUint64), FloatV("float64", "half"), TimeV(0)}
Leaves == UnsupportedLeaves \cup SupportedLeaves

\* A leaf alone, and inside one or two levels of map, slice, pointer and
\* struct, first or after a sibling.
Wrapped(x) ==
    {x, MapV(<<<<"k", x>>>>), SliceV(<<x>>), SliceV(<<IntV(1), x>>), PtrV(x),
     PtrV(PtrV(x)), StructV(<<Field("A", TRUE, "", x)>>),
     StructV(<<Field("a", FALSE, "", x), Field("B", TRUE, "", IntV(1))>>),
     MapV(<<<<"a", IntV(1)>>, <<"k", SliceV(<<x>>)>>>>),
     SliceV(<<MapV(<<<<"k", x>>>>)>>),
     StructV(<<Field("A", TRUE, "", IntV(1)), Field("M", TRUE, "", MapV(<<<<"k", x>>>>))>>)}

NestedValues == UNION {Wrapped(x) : x \in Leaves}

\* The kinds of field of a struct: plain, skipped, renamed, renamed with an
\* option, unexported.  The field at position i is named and renamed by
\* the i-th letter and holds i.
MaxFields == 3
FieldNames == [i \in 1..8 |-> At("ABCDEFGH", i)]
Renames == [i \in 1..8 |-> At("pqrstuvw", i)]
FieldKindNames == {"plain", "skip", "rename", "option", "unexported"}
FieldOf(kind, i) ==
    CASE kind = "plain" -> Field(FieldNames[i], TRUE, "", IntV(i))
      [] kind = "skip" -> Field(FieldNames[i], TRUE, "-", IntV(i))
      [] kind = "rename" -> Field(FieldNames[i], TRUE, Renames[i], IntV(i))
      [] kind = "option" ->
           Field(FieldNames[i], TRUE, Renames[i] \o ",omitempty", IntV(i))
      [] kind = "unexported" -> Field(Renames[i], FALSE, "", IntV(i))

TaggedStructs ==
    {StructV([i \in 1..n |-> FieldOf(ks[i], i)]) :
        n \in 1..MaxFields, ks \in [1..MaxFields -> FieldKindNames]}

MarshalArgs == {[op |-> "marshal", file |-> f, v |-> v] :
                   f \in MarshalRevisions, v \in NestedValues \cup TaggedStructs}

\* MarshalToBuffer(buf, v) on an empty buffer, by the revision arg.file.
ApplyMarshal ==
    /\ arg.op = "marshal"
    /\ res = NoArg
    /\ res' = LET r == MarshalToBufferIn(arg.file, arg.v)
              IN  [op |-> "marshal", err |-> r.err, out |-> r.out]
    /\ UNCHANGED <<arg, logVars>>

(***************************************************************************)
(* Properties of MarshalToBuffer.                                          *)
(***************************************************************************)

RECURSIVE MeetsUnsupported(_)
\* The walk over v meets a channel, a function, a complex number or a map
\* with non-string keys: v is one, or a value it walks into is.  The walk
\* enters pointers, map values, slice elements and exported struct fields.
MeetsUnsupported(v) ==
    CASE v.t \in {"chan", "func", "complex", "keyedmap"} -> TRUE
      [] v.t = "ptr" -> MeetsUnsupported(v.e)
      [] v.t = "map" -> \E i \in 1..Len(v.p) : MeetsUnsupported(v.p[i][2])
      [] v.t = "slice" -> \E i \in 1..Len(v.e) : MeetsUnsupported(v.e[i])
      [] v.t = "struct" ->
           \E i \in 1..Len(v.f) : v.f[i].exported /\ MeetsUnsupported(v.f[i].v)
      [] OTHER -> FALSE

KeyOfField(f) ==
    LET comma == indexComma(f.tag)
        rename == IF comma >= 0 THEN SubSeq(f.tag, 1, comma) ELSE f.tag
    IN  IF rename # "" THEN rename ELSE f.name

RECURSIVE ExpectedMembers(_, _)
\* The members of the object of a struct, from the i-th field on: one per
\* exported field without the skip marker, in field order.
ExpectedMembers(fields, i) ==
    IF i > Len(fields) THEN <<>>
    ELSE IF fields[i].exported /\ fields[i].tag # "-"
         THEN <<<<KeyOfField(fields[i]), [t |-> "num", s |-> FormatInt(fields[i].v.n)]>>>>
              \o ExpectedMembers(fields, i + 1)
         ELSE ExpectedMembers(fields, i + 1)

\* C18 -- MarshalToBuffer writes a struct as a well-formed JSON object with
\* exactly one member per exported field without a skip marker, keyed by
\* the rename of the field when it has one and by its name otherwise; a
\* skipped field leaves no key, no value and no comma, wherever it stands.
C18_StructMembers ==
    (res.op = "marshal" /\ arg.v \in TaggedStructs)
        => /\ res.err = NoError
           /\ LET r == ReadValue(res.out, 1)
              IN  /\ r.ok
                  /\ r.i = Len(res.out) + 1
                  /\ r.v = [t |-> "obj", p |-> ExpectedMembers(arg.v.f, 1)]

(***************************************************************************)
(* The encoders as a specification: one call of one encoder on one input.  *)
(***************************************************************************)

InitEncode ==
    /\ LogAtRest
    /\ arg \in FormatArgs \cup QuoteArgs \cup EncodeArgs \cup MarshalArgs
    /\ res = NoArg

NextEncode == ApplyFormat \/ ApplyQuote \/ ApplyEncode \/ ApplyMarshal

SpecEncode == InitEncode /\ [][NextEncode]_vars

(***************************************************************************)
(* The logger on a sink whose Write may return an error.                   *)
(***************************************************************************)

\* In this specification res is a history: the Write calls that returned
\* an error, by their place in writes.
InitSink == LogInit /\ arg = NoArg /\ res = [op |-> "sink", failed |-> {}]

\* A log that calls Write again after an error.
RetryWrite == "write"

\* Where log goes on when Write returned an error: the error is dropped
\* (_, _ = jl.output.Write) or printed to stderr, and Unlock follows.
AfterWriteError == "unlock"

\* The Write call returns an error, the sink having taken the first bytes
\* only.
WriteFail(p) ==
    /\ proc[p].pc = "writing"
    /\ res' = [res EXCEPT !.failed = @ \cup {Len(writes)}]
    /\ proc' = [proc EXCEPT ![p].pc = AfterWriteError]
    /\ UNCHANGED <<revision, level, baseFields, mutex, bufferPool, buffers, mapPool,
                   sink, writes, calls, naccepted, arg>>

NextSink == Next \/ \E p \in Procs : WriteFail(p)

SpecSink == InitSink /\ [][NextSink]_vars

\* The lines a logger fresh from construction may write for one call.
FreshLines(lv, msg, kvs) ==
    IF revision = "merge"
    THEN UNION {
           LET m == logMap(baseFields, FormatTime(t), LevelString(lv), msg, kvs)
           IN  {LET r == logEncode(m, o1, o2)
                IN  IF r.minimal
                    THEN MinimalLine(FormatTime(t), LevelString(lv), msg)
                    ELSE r.buf : o1 \in IterationOrders(DOMAIN m),
                                 o2 \in IterationOrders(DOMAIN m)}
           : t \in Times}
    ELSE {logDirect(FormatTime(t), LevelString(lv), msg, Pairs(baseFields, ob), kvs) :
            t \in Times, ob \in IterationOrders(DOMAIN baseFields)}

RECURSIVE Received(_, _, _)
\* What the sink has taken of the first n Write calls: the whole bytes of a
\* call that returned nil, the first bytes of one that returned an error.
Received(ws, failed, n) ==
    IF n = 0 THEN ""
    ELSE Received(ws, failed, n - 1)
         \o (IF n \in failed THEN FirstChunk(ws[n].bytes) ELSE ws[n].bytes)

\* C21 -- a Write that returns an error is not retried and not surfaced:
\* each accepted call begins exactly one Write, the call goes on to unlock
\* the mutex and to put its buffer back, and the calls after it write the
\* lines they would have written without the failure.
C21_WriteErrorAbsorbed ==
    /\ Cardinality(BeforeWrite) + Len(writes) = naccepted
    /\ res.failed \subseteq 1..Len(writes)
    /\ Len(writes) = 0 => sink = ""
    /\ Len(writes) > 0 =>
          sink = Received(writes, res.failed, Len(writes) - 1)
                 \o (IF LastInProgress \/ Len(writes) \in res.failed
                     THEN FirstChunk(writes[Len(writes)].bytes)
                     ELSE writes[Len(writes)].bytes)
    /\ \A p \in Procs :
          proc[p].pc \in {"writing", "unlock", "put"} =>
              proc[p].wr \in FreshLines(proc[p].lv, proc[p].msg, proc[p].kvs)
    /\ \A p \in Procs : proc[p].pc \in {"put", "idle", "getbuf", "encode", "lock"}
                           => mutex # p
    /\ (\A p \in Procs : proc[p].pc = "idle") =>
          /\ mutex = 0
          /\ bufferPool = 1..Len(buffers)
          /\ Len(writes) = naccepted

\* The first Write failed, the second call wrote its whole line, and both
\* calls have returned.
C21_Witness ==
    /\ res.op = "sink"
    /\ res.failed = {1}
    /\ Len(writes) = 2
    /\ \A p \in Procs : proc[p].pc = "idle"
    /\ mutex = 0
    /\ sink = FirstChunk(writes[1].bytes) \o writes[2].bytes

(***************************************************************************)
(* One logging call on a logger with base fields and several field maps.   *)
(***************************************************************************)

PipeBases == {EmptyMap, Put(EmptyMap, "service", StrV("svc")),
              Put(Put(EmptyMap, "service", StrV("svc")), "host", StrV("h"))}

PipeMaps ==
    { SrcMap(<<<<"service", StrV("override")>>>>),
      SrcMap(<<<<"x", StrV("1")>>>>),
      SrcMap(<<<<"service:", StrV("o2")>>>>),
      SrcMap(<<<<"service", StrV("o3")>>, <<"x", StrV("2")>>>>),
      SrcMap(<<<<"x", StrV("2")>>, <<"service", StrV("o3")>>>>) }

MaxMaps == 2

RECURSIVE MapSeqs(_)
\* The argument lists of at most n maps.
MapSeqs(n) ==
    IF n = 0 THEN {<<>>}
    ELSE MapSeqs(n - 1)
         \cup {Append(q, x) : q \in {y \in MapSeqs(n - 1) : Len(y) = n - 1},
                              x \in PipeMaps}

PipeArgs == {[op |-> "pipe", via |-> via, base |-> b, maps |-> q] :
                via \in {"merge", "direct"}, b \in PipeBases,
                q \in MapSeqs(MaxMaps) \ {<<>>}}

InitPipe ==
    /\ LogAtRest
    /\ arg \in PipeArgs
    /\ res = NoArg

\* A log that fills the logger's own base map and not a pooled one.
FilledIsBase == "base"

\* The map object log fills with the entry: m, taken from jl.mapPool.
Filled == "m"

\* The map objects after log has built the entry (clear, base fields, core
\* fields, mergeMaps): the logger's base fields, the pooled map m and the
\* maps of the caller.  Assignments go to the filled object only; base and
\* the caller's maps are read.
logObjects(base, timeText, levelString, message, keyValuePairs) ==
    LET h0 == [base |-> base, m |-> EmptyMap, maps |-> keyValuePairs]
        h1 == [h0 EXCEPT ![Filled] = [k \in {} |-> NilV]]
        h2 == [h1 EXCEPT ![Filled] =
                 [k \in (DOMAIN h1[Filled]) \cup (DOMAIN h1.base) |->
                    IF k \in DOMAIN h1.base THEN h1.base[k] ELSE h1[Filled][k]]]
        h3 == [h2 EXCEPT ![Filled] =
                 Put(Put(Put(@, "timestamp", StrV(timeText)),
                         "level", StrV(levelString)),
                     "message", StrV(message))]
    IN  IF Len(keyValuePairs) > 0
        THEN [h3 EXCEPT ![Filled] = mergeMaps(@, h3.maps)]
        ELSE h3

\* jl.Info(msg, maps...) by the merge revision: the line written, and the
\* logger's base fields and the caller's maps after the call.
PipeByMerge ==
    /\ arg.op = "pipe" /\ arg.via = "merge"
    /\ res = NoArg
    /\ \E t \in Times :
         LET h == logObjects(arg.base, FormatTime(t), LevelString(InfoLevel), "m",
                             arg.maps)
             m == h[Filled]
         IN  \E o1 \in IterationOrders(DOMAIN m) :
               LET r == logEncode(m, o1, o1)
               IN  res' = [op |-> "pipe",
                           out |-> IF r.minimal
                                   THEN MinimalLine(FormatTime(t),
                                                    LevelString(InfoLevel), "m")
                                   ELSE r.buf,
                           base |-> h.base,
                           maps |-> h.maps]
    /\ UNCHANGED <<arg, logVars>>

\* jl.Info(msg, maps...) by the direct revision, which reads the base
\* fields and the maps and writes to its buffer only.
PipeByDirect ==
    /\ arg.op = "pipe" /\ arg.via = "direct"
    /\ res = NoArg
    /\ \E t \in Times, ob \in Orders(DOMAIN arg.base) :
         res' = [op |-> "pipe",
                 out |-> logDirect(FormatTime(t), LevelString(InfoLevel), "m",
                                   Pairs(arg.base, ob), arg.maps),
                 base |-> arg.base,
                 maps |-> arg.maps]
    /\ UNCHANGED <<arg, logVars>>

NextPipe == PipeByMerge \/ PipeByDirect

SpecPipe == InitPipe /\ [][NextPipe]_vars

(***************************************************************************)
(* Properties of the pipeline.                                             *)
(***************************************************************************)

\* The per-call maps that hold a key normalizing to k.
HoldersOf(k, maps) ==
    {i \in 1..Len(maps) : \E j \in 1..Len(maps[i].p) : normalizeKey(maps[i].p[j][1]) = k}

\* The keys an entry has besides the core fields.
FieldKeys(base, maps) ==
    (DOMAIN base)
    \cup UNION {{normalizeKey(maps[i].p[j][1]) : j \in 1..Len(maps[i].p)} :
                    i \in 1..Len(maps)}

\* The value of key k in the entry: that of the last map holding it, the
\* base value when no map does.
WinningValue(k, base, maps) ==
    IF HoldersOf(k, maps) = {} THEN base[k]
    ELSE LET last == CHOOSE i \in HoldersOf(k, maps) :
                         \A j \in HoldersOf(k, maps) : j <= i
             at == CHOOSE j \in 1..Len(maps[last].p) :
                       normalizeKey(maps[last].p[j][1]) = k
         IN  maps[last].p[at][2]

\* C22 -- through the logging call, fields are deduplicated, later wins: a
\* key of the base fields or of a per-call map is in the object exactly
\* once, with the value of the last per-call map holding it, or its base
\* value when no per-call map holds it.
C22_LaterWinsOnce ==
    res.op = "pipe" =>
        /\ IsObjectLine(res.out)
        /\ \A k \in FieldKeys(arg.base, arg.maps) :
              /\ CountKey(res.out, k) = 1
              /\ Lookup(res.out, k)
                   = [t |-> "str", s |-> WinningValue(k, arg.base, arg.maps).s]

(***************************************************************************)
(* The logger under fair scheduling.                                       *)
(***************************************************************************)

\* Every goroutine inside log keeps running: each step of log that stays
\* possible is taken, and a goroutine that finds the mutex free again and
\* again gets it (sync.Mutex hands the lock to a starving waiter).
Running(p) ==
    \/ GetBuffer(p)
    \/ Encode(p)
    \/ WriteBegin(p)
    \/ WriteEnd(p)
    \/ Unlock(p)
    \/ PutBuffer(p)

Fairness == \A p \in Procs : WF_vars(Running(p)) /\ SF_vars(Lock(p))

\* The calls are all of severity info, so that the filter lets them pass
\* or not by the configured level alone.
FairNext ==
    \E p \in Procs :
        \/ \E msg \in CallMessages, kvs \in CallFields : Call(p, InfoLevel, msg, kvs)
        \/ Running(p)
        \/ Lock(p)

FairSpec == Init /\ [][FairNext]_vars /\ Fairness

\* The goroutines between Lock and Unlock.
Locked == {p \in Procs : proc[p].pc \in {"write", "writing", "unlock"}}

\* C23 -- every accepted call terminates and releases what it acquired on
\* every path, the minimal path included: the mutex is held by a goroutine
\* exactly from its Lock to its Unlock and given up in one step only, the
\* buffer goes back to the pool in the one step that ends the call, and
\* under fair scheduling every goroutine inside log leaves it, so none
\* waits for the lock forever.
C23_TerminatesAndReleases ==
    /\ [](\A p \in Procs : (mutex = p) <=> (p \in Locked))
    /\ []((\A p \in Procs : proc[p].pc = "idle")
             => (mutex = 0 /\ bufferPool = 1..Len(buffers)))
    /\ [][\A p \in Procs :
             /\ (mutex = p /\ mutex' # p)
                   => (proc[p].pc = "unlock" /\ proc'[p].pc = "put" /\ mutex' = 0)
             /\ (proc[p].buf # 0 /\ proc[p].buf \in bufferPool')
                   => (proc[p].pc = "put" /\ proc'[p].pc = "idle")]_vars
    /\ \A p \in Procs : (proc[p].pc # "idle") ~> (proc[p].pc = "idle")

\* A goroutine on the minimal path has unlocked the mutex and not yet put
\* its buffer back, and the other goroutine has taken the lock.
C23_Witness ==
    \E p, q \in Procs :
        /\ proc[p].minimal
        /\ proc[p].pc = "put"
        /\ proc[q].pc = "write"
        /\ mutex = q

(***************************************************************************)
(* The fallback from FastEncode to MarshalToBuffer inside log.             *)
(***************************************************************************)

\* The map the merge revision builds for the entry under check.
EntryMap ==
    logMap(EmptyMap, FormatTime(0), LevelString(arg.lv), arg.msg,
           <<SrcMap(Pairs(arg.fields, CHOOSE o \in Orders(DOMAIN arg.fields) : TRUE))>>)

\* FastEncode rejects the entry and MarshalToBuffer accepts it.
OnlyMarshalAccepts ==
    LET o == CHOOSE q \in Orders(DOMAIN EntryMap) : TRUE
    IN  /\ ~FastEncode(MapV(Pairs(EntryMap, o))).ok
        /\ ~MarshalToBuffer(MapV(Pairs(EntryMap, o))).err

\* C24 -- in the logger that tries FastEncode and falls back to
\* MarshalToBuffer: when FastEncode rejects the entry and MarshalToBuffer
\* accepts it, the line written is the reflective encoding of the entry and
\* a newline, with none of the bytes FastEncode appended before it failed.
C24_FallbackLineClean ==
    (res.op = "entry" /\ arg.via = "merge" /\ OnlyMarshalAccepts)
        => res.out \in {MarshalToBuffer(MapV(Pairs(EntryMap, o))).out \o "\n" :
                           o \in Orders(DOMAIN EntryMap)}

(***************************************************************************)
(* What happens while the mutex is held.                                   *)
(***************************************************************************)

\* C25 -- the lock is held only around the raw write: the bytes a call
\* writes are those it had formatted in its buffer before it took the
\* mutex, one Write happens while it is held, and between Lock and Unlock
\* nothing is formatted and no pool is touched.
C25_LockAroundWriteOnly ==
    \A p \in Procs :
        /\ (mutex = p) <=> (p \in Locked)
        /\ p \in Locked => proc[p].buf \notin bufferPool
        /\ proc[p].pc \in {"writing", "unlock"} =>
              /\ writes[Len(writes)].p = p
              /\ proc[p].wr = writes[Len(writes)].bytes
              /\ proc[p].wr = buffers[proc[p].buf]

(***************************************************************************)
(* The keys the entry writer emits.                                        *)
(***************************************************************************)

\* C26 -- the entry writer emits the canonical key for every raw key with a
\* suspect character: a key in double quotes, in single quotes, ending in
\* a colon or with whitespace around it is written in its normalized form,
\* and not as it was given.
C26_CanonicalKeysWritten ==
    (res.op = "entry" /\ arg.via \in {"writer", "direct"} /\ IsObjectLine(res.out))
        => \A k \in DOMAIN arg.fields :
              normalizeKey(k) # k =>
                  /\ normalizeKey(k) \in KeysOf(res.out)
                  /\ k \notin KeysOf(res.out)

(***************************************************************************)
(* mergeMaps and the order in which a source map is visited.               *)
(***************************************************************************)

\* The same source map, its range loop visiting the pairs in the opposite
\* order.
VisitedBackwards(src) ==
    IF src.nil THEN src
    ELSE SrcMap([i \in 1..Len(src.p) |-> src.p[Len(src.p) + 1 - i]])

PoolFields ==
    { <<>>,
      <<SrcMap(<<<<"a", IntV(1)>>>>)>>,
      <<SrcMap(<<<<"c", ChanV>>>>)>> }

NextPool ==
    \E p \in Procs :
        \/ \E kvs \in PoolFields : Call(p, InfoLevel, "m", kvs)
        \/ GetBuffer(p)
        \/ Encode(p)
        \/ Lock(p)
        \/ WriteBegin(p)
        \/ WriteEnd(p)
        \/ Unlock(p)
        \/ PutBuffer(p)

SpecPool == Init /\ [][NextPool]_vars

\* C29 -- pooled storage carries nothing from one entry to another: the
\* map a call encodes holds the base fields, the core fields and the fields
\* of that call and no other key, the buffer is empty when the call starts
\* to encode, and the bytes a call writes are those a logger fresh from
\* construction writes for it, whatever earlier and concurrent calls left
\* in the pooled map and buffer.
C29_NoLeakBetweenEntries ==
    /\ \A p \in Procs :
          /\ (revision = "merge" /\ proc[p].pc # "idle") =>
                \E t \in Times :
                   proc[p].m = logMap(baseFields, FormatTime(t),
                                      LevelString(proc[p].lv), proc[p].msg,
                                      proc[p].kvs)
          /\ proc[p].pc = "encode" => buffers[proc[p].buf] = ""
          /\ proc[p].pc \in {"lock", "write"} /\ ~proc[p].minimal =>
                buffers[proc[p].buf] \in
                    FreshLines(proc[p].lv, proc[p].msg, proc[p].kvs)
          /\ proc[p].pc \in {"writing", "unlock", "put"} =>
                proc[p].wr \in FreshLines(proc[p].lv, proc[p].msg, proc[p].kvs)
    /\ \A i \in 1..Len(mapPool) : DOMAIN mapPool[i] = {}

\* Two calls one after the other, the first with field a, the second with
\* no fields: the second took the map and the buffer the first put back,
\* and its line has no a.
C29_Witness ==
    /\ revision = "merge"
    /\ \A p \in Procs : proc[p].pc = "idle"
    /\ Len(writes) = 2
    /\ Len(buffers) = 1
    /\ Len(mapPool) = 1
    /\ writes[1].bytes \in FreshLines(InfoLevel, "m", <<SrcMap(<<<<"a", IntV(1)>>>>)>>)
    /\ \E i \in 1..Len(Members(writes[1].bytes)) : Members(writes[1].bytes)[i][1] = "a"
    /\ \A i \in 1..Len(Members(writes[2].bytes)) : Members(writes[2].bytes)[i][1] # "a"
    /\ writes[2].bytes \in FreshLines(InfoLevel, "m", <<>>)

(***************************************************************************)
(* FastEncode of encoder.go against MarshalToBuffer of coder.go:312.       *)
(***************************************************************************)

RECURSIVE OfAgreedShapes(_)
\* v is null, a string, a boolean, an integer, a timestamp, or a
\* string-keyed map or a sequence of such values.
OfAgreedShapes(v) ==
    CASE v.t \in {"nil", "string", "bool", "int64", "uint64", "time"} -> TRUE
      [] v.t \in SignedKinds \cup UnsignedKinds -> TRUE
      [] v.t = "map" -> \A i \in 1..Len(v.p) : OfAgreedShapes(v.p[i][2])
      [] v.t = "slice" -> \A i \in 1..Len(v.e) : OfAgreedShapes(v.e[i])
      [] OTHER -> FALSE

\* C30 -- the two encoders agree: for a value of the listed shapes that
\* FastEncode and MarshalToBuffer both accept, MarshalToBuffer appends the
\* text FastEncode appends (the keys of a map visited in the same order),
\* strings and keys escaped alike.
C30_TiersAgree ==
    (/\ res.op = "encode"
     /\ arg.file = "encoder.go"
     /\ res.ok
     /\ OfAgreedShapes(arg.v)
     /\ MarshalToBufferIn("coder.go:312", arg.v).err = NoError)
        => MarshalToBufferIn("coder.go:312", arg.v).out = res.out

====
